---- MODULE Spec2Model ----
(***************************************************************************)
(* Model of the legal_document_enhancement ingestion pipeline:             *)
(*   archive_processor.py   ArchiveProcessor                               *)
(*   email_processor.py     EmailProcessor                                 *)
(*   document_processor.py  LegalDocumentProcessor                         *)
(* A file on disk is a record: the parts of its name (split at "."), and   *)
(* what the filesystem and the libraries answer when the code touches it.  *)
(* Texts are strings built with \o as the f-strings of the source build    *)
(* them; the timestamps (processed_at) and the on-disk byte size           *)
(* (file_size) of the metadata are left out of the records.                *)
(***************************************************************************)
EXTENDS Integers, Sequences, FiniteSets, TLC

VARIABLES
    caps,       \* module-level capability flags and the models the constructor loaded
    call,       \* the public operation in progress ("none" before any call)
    inputs,     \* file_paths of the call: one file record per path
    results,    \* batch: results[i] is what task i produced ("pending" before it ran)
    completed,  \* batch: task indices in the order the tasks completed
    phase,      \* "idle" | "gather" | "returned" | "raised"
    out,        \* the value handed to the caller (a list of slots, or <<record>>)
    must_cancel \* batch: the tasks whose cancellation is requested and not yet delivered

vars == <<caps, call, inputs, results, completed, phase, out, must_cancel>>

----------------------------------------------------------------------------
(* Bounds *)

MaxBatch == 2      \* longest file_paths list of a batch call
MaxEntries == 2    \* most entries in one archive
MaxPages == 2      \* most pages in one PDF
MaxParts == 2      \* most MIME parts in one multipart message
MaxItems == 2      \* most items in the root folder of a PST file
MaxSegments == 3   \* most text pieces (sentence plus separator) in one document

----------------------------------------------------------------------------
(* Strings, paths *)

\* str.lower() on the strings the model uses
Lower(s) ==
    CASE s = ".ZIP" -> ".zip"
      [] s = ".PDF" -> ".pdf"
      [] s = "PDF" -> "pdf"
      [] OTHER -> s

RECURSIVE JoinDots(_)
JoinDots(parts) ==
    IF Len(parts) = 0 THEN ""
    ELSE IF Len(parts) = 1 THEN parts[1]
    ELSE parts[1] \o "." \o JoinDots(Tail(parts))

\* str(file_path) / file_path.name
PathStr(f) == JoinDots(f.parts)

\* pathlib: Path.suffix is the text from the LAST dot of the name on
Suffix(f) ==
    IF Len(f.parts) > 1 THEN "." \o f.parts[Len(f.parts)] ELSE ""

\* str.strip('.') of a suffix
StripDot(f) ==
    IF Len(f.parts) > 1 THEN f.parts[Len(f.parts)] ELSE ""

\* Path.read_text(encoding='utf-8', errors='ignore'): the text of the file
FileText(f) == "<text of " \o PathStr(f) \o ">"

\* outcomes of a coroutine: a returned record or a raised exception
Return(rec) == [tag |-> "ok", rec |-> rec]
Raise(etype, msg) == [tag |-> "exc", etype |-> etype, msg |-> msg]
Pending == [tag |-> "pending"]

\* every raw_content of the model: a text and the per-entry / per-page sections
Content(text, sections) == [text |-> text, sections |-> sections]

----------------------------------------------------------------------------
(* Bytes and decoding *)

InvalidByte == "\\xff"

\* payloads of archive entries, as runs of bytes
Payloads == { <<"hello">>, <<InvalidByte>>, <<"hello", InvalidByte>> }

IsValidUtf8(bytes) == \A i \in 1..Len(bytes) : bytes[i] # InvalidByte

\* bytes.decode('utf-8', errors=...): 'ignore' drops the undecodable bytes and
\* never raises; 'strict' raises UnicodeDecodeError on the first of them
Decode(bytes, errors) ==
    IF errors = "ignore"
    THEN [raised |-> FALSE, text |-> SelectSeq(bytes, LAMBDA b : b # InvalidByte)]
    ELSE IF IsValidUtf8(bytes)
         THEN [raised |-> FALSE, text |-> bytes]
         ELSE [raised |-> TRUE, text |-> <<>>]

----------------------------------------------------------------------------
(* archive_processor.py *)

ZIP_PROCESSING_AVAILABLE == TRUE   \* zipfile and tarfile are standard library

\* the members of an archive: regular files (text, or holding bytes that are
\* not UTF-8; read_ok: open() and read() succeed on it) and directory entries
FileEntries ==
    [name : {"a.txt"}, isdir : {FALSE}, payload : { <<"hello">> }, read_ok : BOOLEAN]
    \cup [name : {"b.bin"}, isdir : {FALSE},
          payload : { <<InvalidByte>>, <<"hello", InvalidByte>> }, read_ok : BOOLEAN]
DirEntries ==
    { [name |-> "docs", isdir |-> TRUE, payload |-> <<>>, read_ok |-> TRUE] }
Entries == FileEntries \cup DirEntries

EntryLists(n) == UNION { [1..k -> Entries] : k \in 0..n }

ArchiveNames ==
    { <<"a", "zip">>, <<"A", "ZIP">>, <<"b", "rar">>, <<"c", "tar">>,
      <<"c", "tar", "gz">>, <<"c", "tar", "bz2">>, <<"d", "7z">>, <<"e", "txt">> }

\* exists: Path.exists(); readable: the bytes can be read; valid: the
\* container library opens it; entries: its member list
ArchiveFiles(n) ==
    [parts : ArchiveNames, exists : {FALSE}, readable : {FALSE}, valid : {FALSE},
     entries : { <<>> }]
    \cup [parts : ArchiveNames, exists : {TRUE}, readable : BOOLEAN, valid : {FALSE},
          entries : { <<>> }]
    \cup [parts : ArchiveNames, exists : {TRUE}, readable : {TRUE}, valid : {TRUE},
          entries : EntryLists(n)]

\* namelist() / getnames(): zipfile and rarfile list a directory with a
\* trailing "/", tarfile lists it without
ListedName(fmt, e) ==
    IF e.isdir /\ fmt # "tar" THEN e.name \o "/" ELSE e.name

EndsWithSlash(fmt, e) == e.isdir /\ fmt # "tar"

\* the body of "for file_name in file_list" for one member: what it adds to
\* total_size and to extracted_content
EntryStep(fmt, e) ==
    IF EndsWithSlash(fmt, e)
    THEN [size |-> 0, items |-> <<>>]                     \* continue
    ELSE IF ~e.read_ok
    THEN [size |-> Len(e.payload), items |-> <<>>]        \* open()/read() raised
    ELSE IF fmt = "tar" /\ e.isdir
    THEN [size |-> 0, items |-> <<>>]                     \* extractfile() gave None
    ELSE LET d == Decode(e.payload, "ignore") IN
         IF ~d.raised
         THEN [size |-> Len(e.payload),
               items |-> << [filename |-> ListedName(fmt, e), content |-> d.text,
                             size |-> Len(e.payload), type |-> "text"] >>]
         ELSE [size |-> Len(e.payload),
               items |-> << [filename |-> ListedName(fmt, e),
                             content |-> << "[Binary file: " \o ListedName(fmt, e) \o "]" >>,
                             size |-> Len(e.payload), type |-> "binary"] >>]

\* zip_ref.getinfo(file_name) and zip_ref.open(file_name), tar_ref.getmember
\* and tar_ref.extractfile: the archive is asked by NAME, and answers with the
\* last of its members that carry the name
getinfo(fmt, entries, file_name) ==
    LET named == { i \in 1..Len(entries) : ListedName(fmt, entries[i]) = file_name }
    IN entries[CHOOSE i \in named : \A j \in named : j <= i]

\* "for file_name in file_list": every listed name is looked up in the archive
RECURSIVE FileListLoop(_, _, _)
FileListLoop(fmt, entries, file_list) ==
    IF file_list = <<>> THEN [total_size |-> 0, extracted_content |-> <<>>]
    ELSE LET s == EntryStep(fmt, getinfo(fmt, entries, Head(file_list)))
             r == FileListLoop(fmt, entries, Tail(file_list))
         IN [total_size |-> s.size + r.total_size,
             extracted_content |-> s.items \o r.extracted_content]

\* file_list is namelist() / getnames(): one name per member, in member order
ExtractEntries(fmt, entries) ==
    FileListLoop(fmt, entries, [i \in 1..Len(entries) |-> ListedName(fmt, entries[i])])

ArchiveProcessor_fallback_processing(f, reason) ==
    IF f.readable
    THEN [raw_content |-> Content(FileText(f), <<>>),
          url |-> PathStr(f),
          enhanced_processing |-> FALSE,
          metadata |-> [file_type |-> Lower(Suffix(f)),
                        processing_method |-> "fallback",
                        reason |-> reason]]
    ELSE [raw_content |-> Content("Could not process " \o PathStr(f) \o ": " \o reason, <<>>),
          url |-> PathStr(f),
          enhanced_processing |-> FALSE,
          metadata |-> [file_type |-> Lower(Suffix(f)),
                        processing_method |-> "error",
                        error |-> "read failed: " \o PathStr(f)]]

\* the try-body shared by _process_zip_file, _process_rar_file, _process_tar_file
ArchiveRecord(fmt, title, f) ==
    LET x == ExtractEntries(fmt, f.entries) IN
    [raw_content |-> Content(title \o " ARCHIVE CONTENTS Archive: " \o PathStr(f)
                               \o " Files: " \o ToString(Len(f.entries))
                               \o " Total Size: " \o ToString(x.total_size) \o " bytes",
                             x.extracted_content),
     url |-> PathStr(f),
     enhanced_processing |-> TRUE,
     metadata |-> [file_type |-> fmt,
                   processing_method |-> "archive_extraction",
                   file_count |-> Len(f.entries),
                   total_size |-> x.total_size,
                   extracted_files |-> [i \in 1..Len(x.extracted_content) |->
                                           x.extracted_content[i].filename]]]

_process_zip_file(f) ==
    IF ~ZIP_PROCESSING_AVAILABLE
    THEN ArchiveProcessor_fallback_processing(f, "ZIP processing not available")
    ELSE IF f.valid THEN ArchiveRecord("zip", "ZIP", f)
    ELSE ArchiveProcessor_fallback_processing(f, "ZIP processing failed: cannot open " \o PathStr(f))

_process_rar_file(c, f) ==
    IF ~c.rar
    THEN ArchiveProcessor_fallback_processing(f, "RAR processing not available")
    ELSE IF f.valid THEN ArchiveRecord("rar", "RAR", f)
    ELSE ArchiveProcessor_fallback_processing(f, "RAR processing failed: cannot open " \o PathStr(f))

\* the compression mode _process_tar_file opens the file with
TarMode(f) ==
    IF Suffix(f) = ".gz" THEN "r:gz"
    ELSE IF Suffix(f) = ".bz2" THEN "r:bz2"
    ELSE "r"

_process_tar_file(f) ==
    IF ~ZIP_PROCESSING_AVAILABLE
    THEN ArchiveProcessor_fallback_processing(f, "TAR processing not available")
    ELSE IF f.valid THEN ArchiveRecord("tar", "TAR", f)
    ELSE ArchiveProcessor_fallback_processing(f, "TAR processing failed: cannot open " \o PathStr(f))

\* which branch of process_archive_file takes the file
ArchiveRoute(f) ==
    LET file_extension == Lower(Suffix(f)) IN
    IF file_extension = ".zip" THEN "zip"
    ELSE IF file_extension = ".rar" THEN "rar"
    ELSE IF file_extension \in {".tar", ".tar.gz", ".tar.bz2"} THEN "tar"
    ELSE "unsupported"

process_archive_file(c, f) ==
    IF ~f.exists
    THEN Raise("FileNotFoundError", "Archive file not found: " \o PathStr(f))
    ELSE CASE ArchiveRoute(f) = "zip" -> Return(_process_zip_file(f))
           [] ArchiveRoute(f) = "rar" -> Return(_process_rar_file(c, f))
           [] ArchiveRoute(f) = "tar" -> Return(_process_tar_file(f))
           [] OTHER -> Raise("ValueError",
                             "Unsupported archive format: " \o Lower(Suffix(f)))

----------------------------------------------------------------------------
(* email_processor.py *)

EMAIL_PROCESSING_AVAILABLE == TRUE   \* email, quopri, base64 are standard library

EmailNames == { <<"m", "msg">>, <<"e", "eml">>, <<"p", "pst">>, <<"n", "txt">> }

\* one MIME part as msg.walk() yields it: get_content_type(), the
\* Content-Disposition header without its parameters, get_filename() ("" when
\* the part has none), and the text of get_payload(decode=True) ("" when the
\* payload is empty or None)
BodyPlain == [content_type |-> "text/plain", disposition |-> "", filename |-> "", payload |-> "hello"]
BodyHtml == [content_type |-> "text/html", disposition |-> "", filename |-> "", payload |-> "<b>hi</b>"]
TextAttachment == [content_type |-> "text/plain", disposition |-> "attachment", filename |-> "n.txt", payload |-> "note"]
PdfAttachment == [content_type |-> "application/pdf", disposition |-> "attachment", filename |-> "a.pdf", payload |-> "data"]
PdfNamed == [content_type |-> "application/pdf", disposition |-> "", filename |-> "x.pdf", payload |-> "data"]
PdfEmpty == [content_type |-> "application/pdf", disposition |-> "attachment", filename |-> "z.pdf", payload |-> ""]
TextInline == [content_type |-> "text/plain", disposition |-> "inline", filename |-> "i.txt", payload |-> "memo"]
PdfUnnamed == [content_type |-> "application/pdf", disposition |-> "attachment", filename |-> "", payload |-> "data"]

MimeParts ==
    { BodyPlain, BodyHtml, TextAttachment, PdfAttachment, PdfNamed, PdfEmpty,
      TextInline, PdfUnnamed }

\* a parsed message: is_multipart() and the leaf parts of walk() in order (the
\* multipart container walk() yields first has no filename and no payload); a
\* message that is not multipart is its own single part
EmlMessages(n) ==
    [multipart : {TRUE}, parts : UNION { [1..k -> MimeParts] : k \in 0..n }]
    \cup [multipart : {FALSE}, parts : { <<p>> : p \in MimeParts }]

NoMessage == [multipart |-> FALSE, parts |-> <<>>]

SampleMessage == [multipart |-> TRUE, parts |-> <<BodyPlain, PdfAttachment>>]

\* the items of a PST folder as _extract_pst_messages sees them: a message
\* has a message_class and no sub_items, a folder has sub_items and no
\* message_class. message_class "raises" is a message on which reading
\* item.message_class throws (hasattr lets everything but AttributeError
\* through); extract says whether reading the message's fields inside the
\* inner try throws; readable says whether the folder's sub_items can be read
\* ("yes"), throw when they are iterated ("iteration_raises") or throw when
\* the attribute is read ("access_raises")
NoteA == [kind |-> "message", message_class |-> "IPM.Note", extract |-> "ok", subject |-> "a"]
NoteB == [kind |-> "message", message_class |-> "IPM.Note", extract |-> "ok", subject |-> "b"]
NoteBad == [kind |-> "message", message_class |-> "IPM.Note", extract |-> "raise", subject |-> "x"]
NoteUnreadable ==
    [kind |-> "message", message_class |-> "raises", extract |-> "raise", subject |-> "y"]
Appointment ==
    [kind |-> "message", message_class |-> "IPM.Appointment", extract |-> "ok", subject |-> "c"]

PstFolder(readable, sub_items) ==
    [kind |-> "folder", readable |-> readable, sub_items |-> sub_items]

PstMessages == { NoteA, NoteB, NoteBad, NoteUnreadable, Appointment }

PstSubFolders ==
    { PstFolder("yes", << NoteBad, NoteB >>),
      PstFolder("yes", << NoteA, PstFolder("yes", << NoteBad, NoteB >>), NoteA >>),
      PstFolder("iteration_raises", << NoteA >>),
      PstFolder("access_raises", << NoteA >>) }

PstItems == PstMessages \cup PstSubFolders

\* pst.root_folder of an opened PST file
PstRoots(n) == { PstFolder("yes", items) : items \in UNION { [1..k -> PstItems] : k \in 0..n } }

NoFolder == [kind |-> "none"]        \* not a PST file, or pst.open threw
RootRaises == [kind |-> "raises"]    \* pst.open succeeded, pst.root_folder throws

SampleRoot == PstFolder("yes", << NoteA >>)

\* parse_ok: the try-body of the format handler runs without throwing
\* (email.message_from_file and the walks for EML, pypff for PST); msg: what
\* email.message_from_file returns for an EML file; root: what pypff gives
\* for a PST file
EmailFiles ==
    { f \in [parts : EmailNames, exists : BOOLEAN, readable : BOOLEAN,
             parse_ok : BOOLEAN, msg : {NoMessage}, root : {NoFolder}] :
        /\ f.readable => f.exists
        /\ f.parse_ok => f.readable
        /\ ~(f.parts \in { <<"e", "eml">>, <<"p", "pst">> } /\ f.parse_ok) }
    \cup [parts : { <<"e", "eml">> }, exists : {TRUE}, readable : {TRUE},
          parse_ok : {TRUE}, msg : EmlMessages(MaxParts), root : {NoFolder}]
    \cup [parts : { <<"p", "pst">> }, exists : {TRUE}, readable : {TRUE},
          parse_ok : {TRUE}, msg : {NoMessage}, root : PstRoots(MaxItems)]
    \cup [parts : { <<"p", "pst">> }, exists : {TRUE}, readable : BOOLEAN,
          parse_ok : {FALSE}, msg : {NoMessage}, root : {RootRaises}]

EmailProcessor_fallback_processing(f, reason) ==
    IF f.readable
    THEN [raw_content |-> Content(FileText(f), <<>>),
          url |-> PathStr(f),
          enhanced_processing |-> FALSE,
          metadata |-> [file_type |-> Lower(Suffix(f)),
                        processing_method |-> "fallback",
                        reason |-> reason]]
    ELSE [raw_content |-> Content("Could not process " \o PathStr(f) \o ": " \o reason, <<>>),
          url |-> PathStr(f),
          enhanced_processing |-> FALSE,
          metadata |-> [file_type |-> Lower(Suffix(f)),
                        processing_method |-> "error",
                        error |-> "read failed: " \o PathStr(f)]]

\* open(file_path, 'rb') is the only statement of the try-body that can throw:
\* _extract_text_from_binary catches everything itself
_process_msg_file(f) ==
    IF ~EMAIL_PROCESSING_AVAILABLE
    THEN EmailProcessor_fallback_processing(f, "MSG file processing not available")
    ELSE IF f.readable
    THEN [raw_content |-> Content("<printable runs of " \o PathStr(f) \o ">", <<>>),
          url |-> PathStr(f),
          enhanced_processing |-> TRUE,
          metadata |-> [file_type |-> "msg",
                        processing_method |-> "email_extraction"]]
    ELSE EmailProcessor_fallback_processing(f,
             "MSG processing failed: cannot open " \o PathStr(f))

\* re.sub(r'<[^>]+>', '', html_content) on the payloads above
StripTags(text) ==
    CASE text = "<b>hi</b>" -> "hi"
      [] OTHER -> text

RECURSIVE BodyOfParts(_)
BodyOfParts(ps) ==
    IF ps = <<>> THEN ""
    ELSE LET part == Head(ps) IN
         (IF part.content_type = "text/plain" THEN part.payload
          ELSE IF part.content_type = "text/html" THEN StripTags(part.payload)
          ELSE "")
         \o BodyOfParts(Tail(ps))

\* the payloads above carry no outer whitespace, so strip() leaves the text
_extract_email_body(msg) ==
    IF msg.multipart THEN BodyOfParts(msg.parts)
    ELSE IF msg.parts = <<>> THEN ""
    ELSE msg.parts[1].payload

\* "attachment" in content_disposition
MentionsAttachment(disposition) == disposition = "attachment"

StartsWithText(content_type) == content_type \in { "text/plain", "text/html" }

\* the test that opens the loop body of _extract_attachments
IsAttachmentPart(part) ==
    \/ MentionsAttachment(part.disposition)
    \/ part.content_type \notin { "text/plain", "text/html" } /\ part.filename # ""

RECURSIVE AttachmentsOfParts(_)
AttachmentsOfParts(ps) ==
    IF ps = <<>> THEN <<>>
    ELSE LET part == Head(ps)
             rest == AttachmentsOfParts(Tail(ps)) IN
         IF IsAttachmentPart(part) /\ part.filename # "" /\ part.payload # ""
         THEN << [filename |-> part.filename,
                  content_type |-> part.content_type,
                  content |-> IF StartsWithText(part.content_type)
                              THEN part.payload
                              ELSE "[Binary attachment: " \o part.filename \o "]",
                  size |-> Len(part.payload)] >> \o rest
         ELSE rest

_extract_attachments(msg) ==
    IF msg.multipart THEN AttachmentsOfParts(msg.parts) ELSE <<>>

RECURSIVE AttachmentsSection(_, _)
AttachmentsSection(attachments, i) ==
    IF i > Len(attachments) THEN ""
    ELSE "\nAttachment " \o ToString(i) \o ": " \o attachments[i].filename \o "\n"
         \o "Type: " \o attachments[i].content_type \o "\n"
         \o "Size: " \o ToString(attachments[i].size) \o " bytes\n"
         \o "Content:\n" \o attachments[i].content \o "\n"
         \o "--------------------------------------------------\n"
         \o AttachmentsSection(attachments, i + 1)

_process_eml_file(f) ==
    IF ~EMAIL_PROCESSING_AVAILABLE
    THEN EmailProcessor_fallback_processing(f, "EML file processing not available")
    ELSE IF f.parse_ok
    THEN LET body == _extract_email_body(f.msg)
             attachments == _extract_attachments(f.msg)
             formatted_content ==
                 "\nEMAIL MESSAGE\n=============\n<header lines of "
                 \o PathStr(f) \o ">\n\n" \o body \o "\n"
                 \o (IF attachments # <<>>
                     THEN "\n\nATTACHMENTS\n===========\n"
                          \o AttachmentsSection(attachments, 1)
                     ELSE "") IN
         [raw_content |-> Content(formatted_content, <<>>),
          url |-> PathStr(f),
          enhanced_processing |-> TRUE,
          metadata |-> [file_type |-> "eml",
                        processing_method |-> "email_parsing",
                        attachments |-> Len(attachments),
                        attachment_files |->
                            [i \in 1..Len(attachments) |-> attachments[i].filename]]]
    ELSE EmailProcessor_fallback_processing(f,
             "EML processing failed: " \o PathStr(f))

\* msg_data of one message
MsgData(item) == [subject |-> item.subject, body |-> "<body of " \o item.subject \o ">"]

\* the inner try of _extract_pst_messages: the message's msg_data is appended
\* unless reading its fields throws
AppendMessage(item, messages) ==
    IF item.kind = "message" /\ item.message_class = "IPM.Note" /\ item.extract = "ok"
    THEN Append(messages, MsgData(item))
    ELSE messages

\* _extract_pst_messages: messages with the msg_data of the folder's items and
\* of its sub-folders' items appended. The loop over sub_items stands in one
\* try: a throw of the message_class test or of hasattr(item, 'sub_items')
\* ends the loop of this folder with what was appended so far
RECURSIVE _extract_pst_messages(_, _)
RECURSIVE ExtractItems(_, _)
ExtractItems(sub_items, messages) ==
    IF sub_items = <<>> THEN messages
    ELSE LET item == Head(sub_items) IN
         IF item.kind = "message" /\ item.message_class = "raises" THEN messages
         ELSE LET with_message == AppendMessage(item, messages) IN
              IF item.kind = "folder" /\ item.readable = "access_raises" THEN with_message
              ELSE ExtractItems(Tail(sub_items),
                                IF item.kind = "folder"
                                THEN _extract_pst_messages(item, with_message)
                                ELSE with_message)

_extract_pst_messages(folder, messages) ==
    IF folder.readable # "yes" THEN messages
    ELSE ExtractItems(folder.sub_items, messages)

\* the block formatted for message i
MessageBlock(i, msg) ==
    "MESSAGE " \o ToString(i) \o "\n" \o "Subject: " \o msg.subject \o "\n"
    \o "Body: " \o msg.body \o "\n\n"

_process_pst_file(c, f) ==
    IF ~c.pst
    THEN EmailProcessor_fallback_processing(f, "PST file processing not available")
    ELSE IF f.parse_ok
    THEN LET messages == _extract_pst_messages(f.root, <<>>) IN
         [raw_content |-> Content("OUTLOOK PST FILE - ALL MESSAGES\n",
                                  [i \in 1..Len(messages) |-> MessageBlock(i, messages[i])]),
          url |-> PathStr(f),
          enhanced_processing |-> TRUE,
          metadata |-> [file_type |-> "pst",
                        processing_method |-> "pst_extraction",
                        message_count |-> Len(messages)]]
    ELSE EmailProcessor_fallback_processing(f,
             "PST processing failed: " \o PathStr(f))

process_email_file(c, f) ==
    IF ~f.exists
    THEN Raise("FileNotFoundError", "Email file not found: " \o PathStr(f))
    ELSE LET file_extension == Lower(Suffix(f)) IN
         IF file_extension = ".msg" THEN Return(_process_msg_file(f))
         ELSE IF file_extension = ".eml" THEN Return(_process_eml_file(f))
         ELSE IF file_extension = ".pst" THEN Return(_process_pst_file(c, f))
         ELSE Raise("ValueError", "Unsupported email format: " \o file_extension)

----------------------------------------------------------------------------
(* document_processor.py *)

\* one rasterized page: what the OCR engine, pytesseract and camelot answer on
\* it. tables lists the rows of each table camelot finds ("" for a table
\* without rows); a failed table extraction returns [] like a page without
\* tables
NoTables == <<>>
OneTable == << "rows" >>
TwoTables == << "rows", "" >>

Pages ==
    [id : {"p"}, ocr : {"lines", "empty", "raise"}, tess : {"text", "raise"},
     tables : { NoTables }]
    \cup [id : {"p"}, ocr : {"lines"}, tess : {"text"}, tables : { OneTable, TwoTables }]
    \cup [id : {"p"}, ocr : {"empty"}, tess : {"blank"}, tables : { NoTables, OneTable }]
    \cup [id : {"p"}, ocr : {"raise"}, tess : {"text"}, tables : { OneTable }]

\* the page kinds multi-page documents are made of
CorePages ==
    { [id |-> "p", ocr |-> "lines", tess |-> "text", tables |-> NoTables],
      [id |-> "p", ocr |-> "lines", tess |-> "text", tables |-> TwoTables],
      [id |-> "p", ocr |-> "empty", tess |-> "blank", tables |-> OneTable],
      [id |-> "p", ocr |-> "raise", tess |-> "raise", tables |-> NoTables] }

PageLists(n) == { << p >> : p \in Pages } \cup UNION { [1..k -> CorePages] : k \in 2..n }

SamplePages == << [id |-> "p", ocr |-> "lines", tess |-> "text", tables |-> NoTables] >>

DocNames == { <<"d", "pdf">>, <<"D", "PDF">>, <<"i", "png">>, <<"t", "txt">>, <<"u", "xyz">> }

image_exts ==
    { ".jpg", ".jpeg", ".png", ".bmp", ".tiff", ".tif", ".webp", ".svg", ".eps",
      ".raw", ".cr2", ".nef", ".orf", ".sr2", ".gif" }

\* the keys of loader_dict in _process_with_gpt_researcher
LoaderTypes == { "pdf", "txt", "doc", "docx", "pptx", "csv", "xls", "xlsx", "md" }

\* raster_ok: convert_from_path / Image.open decode the file; loader_ok: the
\* document loader's load() succeeds; pages: the pages rasterization yields
DocFiles(n) ==
    [parts : DocNames, exists : {FALSE}, raster_ok : {FALSE}, loader_ok : {FALSE},
     pages : { SamplePages }]
    \cup [parts : DocNames, exists : {TRUE}, raster_ok : {FALSE}, loader_ok : BOOLEAN,
          pages : { SamplePages }]
    \cup [parts : DocNames, exists : {TRUE}, raster_ok : {TRUE}, loader_ok : BOOLEAN,
          pages : PageLists(n)]

OcrText(p, num) == "<ocr lines of page " \o ToString(num) \o ">"

\* pytesseract.image_to_string(image): "" on a page without legible text
TessText(p, num) ==
    IF p.tess = "blank" THEN "" ELSE "<pytesseract text of page " \o ToString(num) \o ">"

\* _extract_tables: one dict per table camelot returns
_extract_tables(p, page_num) ==
    [i \in 1..Len(p.tables) |->
        [table_number |-> i, data |-> p.tables[i], page_number |-> page_num + 1]]

\* _analyze_layout catches what it throws and answers with a summary
LayoutInfo(c) == IF c.models THEN "layout summary" ELSE "{}"

\* _process_page_enhanced; self.ocr_engine is set iff the models loaded.
\* A throw of the OCR engine or of pytesseract inside the try skips the
\* layout and table steps and is caught by the handler, which calls
\* pytesseract (again) and lets its throw out.
_process_page_enhanced(c, p, num) ==
    IF c.models /\ p.ocr = "lines"
    THEN [raised |-> FALSE,
          page |-> [page_number |-> num, content |-> OcrText(p, num),
                    tables |-> _extract_tables(p, num), layout_info |-> LayoutInfo(c),
                    ocr_confidence |-> "mean(confidences)"]]
    ELSE IF c.advanced /\ p.tess # "raise" /\ ~(c.models /\ p.ocr = "raise")
    THEN [raised |-> FALSE,
          page |-> [page_number |-> num, content |-> TessText(p, num),
                    tables |-> _extract_tables(p, num), layout_info |-> LayoutInfo(c),
                    ocr_confidence |-> "0.0"]]
    ELSE IF c.advanced /\ p.tess # "raise"
    THEN [raised |-> FALSE,
          page |-> [page_number |-> num, content |-> TessText(p, num),
                    tables |-> <<>>, layout_info |-> "{}",
                    ocr_confidence |-> "0.0"]]
    ELSE [raised |-> TRUE,
          page |-> [page_number |-> num, content |-> "",
                    tables |-> <<>>, layout_info |-> "{}",
                    ocr_confidence |-> "0.0"]]

PagesData(c, f) ==
    [i \in 1..Len(f.pages) |-> _process_page_enhanced(c, f.pages[i], i - 1)]

PageMarker(page_number) == "--- Page " \o ToString(page_number) \o " ---"
TableMarker(table) == "\n--- Table " \o ToString(table.table_number) \o " ---"

\* pd.DataFrame(table["data"]).to_string(index=False)
TableText(table) ==
    "<rows of table " \o ToString(table.table_number) \o " of page "
    \o ToString(table.page_number) \o ">"

RECURSIVE TableParts(_)
TableParts(tables) ==
    IF tables = <<>> THEN <<>>
    ELSE << TableMarker(Head(tables)) >>
         \o (IF Head(tables).data # "" THEN << TableText(Head(tables)) >> ELSE <<>>)
         \o TableParts(Tail(tables))

\* the list combined_content of _combine_pages
RECURSIVE CombinedParts(_)
CombinedParts(pages_data) ==
    IF pages_data = <<>> THEN <<>>
    ELSE LET page == Head(pages_data) IN
         (IF page.content # ""
          THEN << PageMarker(page.page_number), page.content >> \o TableParts(page.tables)
          ELSE <<>>)
         \o CombinedParts(Tail(pages_data))

\* "\n\n".join(combined_content)
RECURSIVE JoinParts(_)
JoinParts(parts) ==
    IF parts = <<>> THEN ""
    ELSE IF Len(parts) = 1 THEN parts[1]
    ELSE parts[1] \o "\n\n" \o JoinParts(Tail(parts))

\* the text _combine_pages returns, with the list it was joined from
_combine_pages(pages_data) ==
    Content(JoinParts(CombinedParts(pages_data)), CombinedParts(pages_data))

_process_with_gpt_researcher(f) ==
    LET file_extension == Lower(StripDot(f)) IN
    IF ~f.exists                  \* PyMuPDFLoader(str(file_path)) in loader_dict
    THEN Raise("ValueError", "File path " \o PathStr(f) \o " is not a valid file or url")
    ELSE IF file_extension \notin LoaderTypes
    THEN Raise("ValueError", "Unsupported file type: " \o file_extension)
    ELSE IF ~f.loader_ok          \* loader.load() threw: logged and re-raised
    THEN Raise("RuntimeError", "could not load " \o PathStr(f))
    ELSE Return([raw_content |-> Content("<loader text of " \o PathStr(f) \o ">", <<>>),
                 url |-> PathStr(f),
                 enhanced_processing |-> FALSE,
                 metadata |-> [file_type |-> file_extension,
                               processing_method |-> "gpt_researcher"]])

\* convert_from_path is None without the advanced imports: calling it throws
_process_pdf_enhanced(c, f) ==
    LET pd == PagesData(c, f) IN
    IF c.advanced /\ f.raster_ok /\ \A i \in 1..Len(pd) : ~pd[i].raised
    THEN LET pages_data == [i \in 1..Len(pd) |-> pd[i].page] IN
         Return([raw_content |-> _combine_pages(pages_data),
                 url |-> PathStr(f),
                 enhanced_processing |-> TRUE,
                 pages |-> pages_data,
                 metadata |-> [file_type |-> "pdf",
                               total_pages |-> Len(f.pages),
                               processing_method |-> "enhanced"]])
    ELSE _process_with_gpt_researcher(f)

\* without the advanced imports Image is the mock whose open() returns None,
\* so only the page processing throws (pytesseract is None)
_process_image_enhanced(c, f) ==
    LET r == _process_page_enhanced(c, f.pages[1], 0) IN
    IF (c.advanced => f.raster_ok) /\ ~r.raised
    THEN Return([raw_content |-> Content(r.page.content, <<>>),
                 url |-> PathStr(f),
                 enhanced_processing |-> TRUE,
                 pages |-> << r.page >>,
                 metadata |-> [file_type |-> "image",
                               total_pages |-> 1,
                               processing_method |-> "enhanced"]])
    ELSE _process_with_gpt_researcher(f)

process_document(c, f) ==
    LET file_extension == Lower(Suffix(f)) IN
    IF file_extension = ".pdf" THEN _process_pdf_enhanced(c, f)
    ELSE IF file_extension \in image_exts THEN _process_image_enhanced(c, f)
    ELSE _process_with_gpt_researcher(f)

----------------------------------------------------------------------------
(* State machine *)

CapSnapshots ==
    { c \in [rar : BOOLEAN, pst : BOOLEAN, advanced : BOOLEAN, models : BOOLEAN] :
        c.models => c.advanced }

\* Task._must_cancel of the tasks of a batch call: batch is the request on the
\* task that runs the batch call (or gather's _cancel_requested, set when that
\* task is cancelled while it waits in gather), children are the tasks of the
\* items a cancellation is requested on
NoCancel == [batch |-> FALSE, children |-> {}]

Init ==
    /\ caps \in CapSnapshots
    /\ call = "none"
    /\ inputs = <<>>
    /\ results = <<>>
    /\ completed = <<>>
    /\ phase = "idle"
    /\ out = <<>>
    /\ must_cancel = NoCancel

\* a single-file public operation: returns its record or raises to the caller
SingleCall(name, f, outcome) ==
    /\ phase = "idle"
    /\ call' = name
    /\ inputs' = <<f>>
    /\ phase' = IF outcome.tag = "ok" THEN "returned" ELSE "raised"
    /\ out' = IF outcome.tag = "ok" THEN <<outcome.rec>>
              ELSE <<[exception |-> outcome.etype, message |-> outcome.msg]>>
    /\ UNCHANGED <<caps, results, completed, must_cancel>>

ProcessArchiveFile ==
    \E f \in ArchiveFiles(MaxEntries) :
        SingleCall("process_archive_file", f, process_archive_file(caps, f))

ProcessEmailFile ==
    \E f \in EmailFiles :
        SingleCall("process_email_file", f, process_email_file(caps, f))

ProcessDocument ==
    \E f \in DocFiles(MaxPages) :
        SingleCall("process_document", f, process_document(caps, f))

----------------------------------------------------------------------------
(* Batch operations *)

\* the files batches are built from
SampleEntries ==
    << [name |-> "a.txt", isdir |-> FALSE, payload |-> <<"hello">>, read_ok |-> TRUE] >>

BatchArchiveFiles ==
    { f \in ArchiveFiles(1) :
        \/ f.parts = <<"a", "zip">> /\ (f.valid => f.entries = SampleEntries)
        \/ f.parts \in { <<"c", "tar", "gz">>, <<"b", "rar">> } /\ f.entries = SampleEntries
        \/ f.parts = <<"e", "txt">> /\ f.readable /\ ~f.valid }

BatchEmailFiles ==
    { f \in EmailFiles :
        \/ f.parts = <<"e", "eml">> /\ f.msg \in { NoMessage, SampleMessage }
        \/ f.parts = <<"p", "pst">> /\ f.root = SampleRoot
        \/ f.parts = <<"n", "txt">> /\ f.parse_ok }

BatchDocFiles ==
    { f \in DocFiles(1) :
        \/ f.parts = <<"d", "pdf">> /\ f.pages = SamplePages
        \/ f.parts = <<"t", "txt">> /\ f.loader_ok /\ ~f.raster_ok
        \/ f.parts = <<"u", "xyz">> /\ f.exists /\ ~f.raster_ok /\ ~f.loader_ok }

BatchLists(S) == UNION { [1..n -> S] : n \in 0..MaxBatch }

\* the coroutine each task of the batch runs
ItemOp(name, c, f) ==
    CASE name = "process_documents_batch" -> process_document(c, f)
      [] name = "process_email_files_batch" -> process_email_file(c, f)
      [] name = "process_archive_files_batch" -> process_archive_file(c, f)
      [] name = "LegalDocumentEnhancement.process_documents_batch" -> process_document(c, f)

\* what a finished task holds: its return value or its exception object
TaskValue(outcome) ==
    IF outcome.tag = "ok" THEN outcome.rec
    ELSE [exception |-> outcome.etype, message |-> outcome.msg]

\* isinstance(result, Exception): asyncio.CancelledError derives from
\* BaseException, not from Exception
IsException(v) == "exception" \in DOMAIN v /\ v.exception # "CancelledError"

\* gather without return_exceptions: the first exception is raised to the caller
gather_propagating(res, order) ==
    LET failed == { i \in 1..Len(res) : res[i].tag = "exc" } IN
    IF failed = {}
    THEN [raised |-> FALSE, values |-> [i \in 1..Len(res) |-> TaskValue(res[i])]]
    ELSE [raised |-> TRUE,
          values |-> << TaskValue(res[CHOOSE i \in failed : \A j \in failed : i <= j]) >>]

\* values collected as the tasks complete (as asyncio.as_completed yields them)
gather_as_completed(res, order) ==
    [raised |-> FALSE,
     values |-> [i \in 1..Len(res) |-> TaskValue(res[order[i]])]]

\* asyncio.gather(*tasks, return_exceptions=True): one value per awaitable, in
\* the order of the awaitables (res), whatever order they completed in (order);
\* exceptions are returned as values, nothing is raised
gather(res, order) ==
    [raised |-> FALSE,
     values |-> [i \in 1..Len(res) |-> TaskValue(res[i])]]

\* tasks = [...]: the call creates one task per path and waits in
\* `await asyncio.gather(...)`. gather of no awaitable is a future that is
\* done already, on which await does not give the loop back: the call on an
\* empty list returns the empty list in the same step
BatchCall(name, paths) ==
    /\ phase = "idle"
    /\ call' = name
    /\ inputs' = paths
    /\ results' = [i \in 1..Len(paths) |-> Pending]
    /\ completed' = <<>>
    /\ phase' = IF paths = <<>> THEN "returned" ELSE "gather"
    /\ out' = <<>>
    /\ UNCHANGED <<caps, must_cancel>>

ProcessDocumentsBatch ==
    \E paths \in BatchLists(BatchDocFiles) :
        BatchCall("process_documents_batch", paths)

ProcessEmailFilesBatch ==
    \E paths \in BatchLists(BatchEmailFiles) :
        BatchCall("process_email_files_batch", paths)

ProcessArchiveFilesBatch ==
    \E paths \in BatchLists(BatchArchiveFiles) :
        BatchCall("process_archive_files_batch", paths)

\* the event loop gives a pending task its turn; any pending task may be the
\* next one. A task whose cancellation is requested ends with CancelledError
\* before its coroutine has run a statement; any other runs its coroutine to
\* completion (the coroutines never suspend on a pending future)
RunTask ==
    \E i \in 1..Len(inputs) :
        /\ phase = "gather"
        /\ results[i] = Pending
        /\ results' = [results EXCEPT ![i] =
                          IF i \in must_cancel.children THEN Raise("CancelledError", "")
                          ELSE ItemOp(call, caps, inputs[i])]
        /\ completed' = Append(completed, i)
        /\ must_cancel' = [must_cancel EXCEPT !.children = @ \ {i}]
        /\ UNCHANGED <<caps, call, inputs, phase, out>>

AllDone == \A i \in 1..Len(inputs) : results[i].tag \in {"ok", "exc"}

\* email_processor.py: the "Handle exceptions" loop of the batch
EmailBatchSlot(f, result) ==
    IF IsException(result)
    THEN [raw_content |-> Content("Error processing " \o PathStr(f) \o ": "
                                    \o result.message, <<>>),
          url |-> PathStr(f),
          enhanced_processing |-> FALSE,
          metadata |-> [file_type |-> Lower(Suffix(f)),
                        processing_method |-> "error",
                        error |-> result.message]]
    ELSE result

\* archive_processor.py: the "Handle exceptions" loop of the batch
ArchiveBatchSlot(f, result) ==
    IF IsException(result)
    THEN [raw_content |-> Content("Error processing " \o PathStr(f) \o ": "
                                    \o result.message, <<>>),
          url |-> PathStr(f),
          enhanced_processing |-> FALSE,
          metadata |-> [file_type |-> Lower(Suffix(f)),
                        processing_method |-> "error",
                        error |-> result.message]]
    ELSE result

\* document_processor.py: the gathered list is returned as it is
DocumentBatchSlot(f, result) == result

BatchSlot(name, f, result) ==
    CASE name = "process_documents_batch" -> DocumentBatchSlot(f, result)
      [] name = "process_email_files_batch" -> EmailBatchSlot(f, result)
      [] name = "process_archive_files_batch" -> ArchiveBatchSlot(f, result)
      [] name = "LegalDocumentEnhancement.process_documents_batch" -> DocumentBatchSlot(f, result)

\* gather completes when every task has; the batch builds its list and returns
BatchReturn(name) ==
    /\ phase = "gather"
    /\ call = name
    /\ AllDone
    /\ ~must_cancel.batch
    /\ LET g == gather(results, completed) IN
       /\ phase' = IF g.raised THEN "raised" ELSE "returned"
       /\ out' = IF g.raised THEN g.values
                 ELSE [i \in 1..Len(g.values) |-> BatchSlot(name, inputs[i], g.values[i])]
    /\ UNCHANGED <<caps, call, inputs, results, completed, must_cancel>>

DocumentsBatchReturn == BatchReturn("process_documents_batch")
EmailFilesBatchReturn == BatchReturn("process_email_files_batch")
ArchiveFilesBatchReturn == BatchReturn("process_archive_files_batch")

NextFile ==
    \/ ProcessArchiveFile
    \/ ProcessEmailFile
    \/ ProcessDocument

\* task.cancel() on a task of the batch that has not had its turn, called from
\* another callback of the loop: the call only requests the cancellation and
\* returns; the task ends with CancelledError at its turn (RunTask), and
\* gather collects that like any other exception of a child. On a task that
\* is done cancel() changes nothing
CancelTask ==
    \E i \in 1..Len(inputs) :
        /\ phase = "gather"
        /\ results[i] = Pending
        /\ i \notin must_cancel.children
        /\ must_cancel' = [must_cancel EXCEPT !.children = @ \cup {i}]
        /\ UNCHANGED <<caps, call, inputs, results, completed, phase, out>>

\* cancel() on the task of the batch call while it waits in `await
\* asyncio.gather(...)`, at any time before the call resumes: the request is
\* recorded and passed to every child that is not done; nothing else changes
\* in this step
CancelBatch ==
    /\ phase = "gather"
    /\ ~must_cancel.batch
    /\ must_cancel' = [batch |-> TRUE,
                       children |-> must_cancel.children
                                      \cup { i \in 1..Len(results) : results[i] = Pending }]
    /\ UNCHANGED <<caps, call, inputs, results, completed, phase, out>>

\* the cancelled batch call resumes once every child is done: `await
\* asyncio.gather(...)` raises CancelledError in the batch coroutine, which
\* has no handler for it
BatchCancelled ==
    /\ phase = "gather"
    /\ AllDone
    /\ must_cancel.batch
    /\ phase' = "raised"
    /\ out' = << [exception |-> "CancelledError", message |-> ""] >>
    /\ must_cancel' = [must_cancel EXCEPT !.batch = FALSE]
    /\ UNCHANGED <<caps, call, inputs, results, completed>>

NextBatch ==
    \/ ProcessDocumentsBatch
    \/ ProcessEmailFilesBatch
    \/ ProcessArchiveFilesBatch
    \/ RunTask
    \/ DocumentsBatchReturn
    \/ EmailFilesBatchReturn
    \/ ArchiveFilesBatchReturn

Next ==
    \/ ProcessArchiveFile
    \/ ProcessEmailFile
    \/ ProcessDocument
    \/ ProcessDocumentsBatch
    \/ ProcessEmailFilesBatch
    \/ ProcessArchiveFilesBatch
    \/ RunTask
    \/ DocumentsBatchReturn
    \/ EmailFilesBatchReturn
    \/ ArchiveFilesBatchReturn

\* the batch operations with cancellation
NextCancel ==
    \/ ProcessDocumentsBatch
    \/ ProcessEmailFilesBatch
    \/ ProcessArchiveFilesBatch
    \/ RunTask
    \/ CancelTask
    \/ CancelBatch
    \/ BatchCancelled
    \/ DocumentsBatchReturn
    \/ EmailFilesBatchReturn
    \/ ArchiveFilesBatchReturn

\* every public operation
Spec == Init /\ [][Next]_vars
\* the three batch operations, their tasks or the batch cancelled at any time
SpecCancel == Init /\ [][NextCancel]_vars
\* the three batch operations
SpecBatch == Init /\ [][NextBatch]_vars
\* the three single-file operations
SpecFile == Init /\ [][NextFile]_vars

----------------------------------------------------------------------------
(* Properties *)

BatchOps ==
    { "process_documents_batch", "process_email_files_batch",
      "process_archive_files_batch" }
FileOps == { "process_document", "process_email_file", "process_archive_file" }

Finished == phase \in {"returned", "raised"}

\* a slot that is a document record, not an exception object
IsRecord(v) == "raw_content" \in DOMAIN v /\ "metadata" \in DOMAIN v

\* what a batch operation is specified to deliver for the list paths
BatchOutput(name, c, paths) ==
    [i \in 1..Len(paths) |->
        BatchSlot(name, paths[i], TaskValue(ItemOp(name, c, paths[i])))]

RemoveAt(seq, m) ==
    [j \in 1..(Len(seq) - 1) |-> IF j < m THEN seq[j] ELSE seq[j + 1]]

\* C1: a batch operation never raises to its caller and returns exactly one
\* slot per input path
C1_BatchReturnsNSlots ==
    (call \in BatchOps /\ Finished) =>
        (phase = "returned" /\ Len(out) = Len(inputs))

C1_Witness ==
    /\ call = "process_archive_files_batch"
    /\ phase = "returned"
    /\ Len(inputs) >= 2
    /\ \E i, j \in 1..Len(inputs) :
          /\ ~inputs[i].exists
          /\ inputs[j].exists /\ results[j].tag = "exc"

\* C2: slot i of a batch result is the outcome of input i, in whatever order
\* the item operations completed
C2_SlotMatchesInput ==
    (call \in BatchOps /\ phase = "returned") =>
        /\ Len(out) = Len(inputs)
        /\ \A i \in 1..Len(inputs) :
              out[i] = BatchSlot(call, inputs[i],
                                 TaskValue(ItemOp(call, caps, inputs[i])))

C2_Witness ==
    /\ call \in BatchOps
    /\ phase = "returned"
    /\ Len(inputs) >= 2
    /\ completed[1] = 2
    /\ out[1] # out[2]

\* C3: in a batch result, the slot of an item whose operation raised is an
\* error record carrying the exception's message, the item's path and its
\* file type (never the exception object), and the slot of an item that
\* succeeded is that item's record
C3_FailedSlotIsErrorRecord ==
    (call \in BatchOps /\ phase = "returned") =>
        \A i \in 1..Len(inputs) :
            /\ results[i].tag = "exc" =>
                  /\ IsRecord(out[i])
                  /\ out[i].metadata.error = results[i].msg
                  /\ out[i].url = PathStr(inputs[i])
                  /\ out[i].metadata.file_type = Lower(Suffix(inputs[i]))
            /\ results[i].tag = "ok" => out[i] = results[i].rec

\* C4: with exactly one missing file in the batch, its slot is an error
\* record and every other slot is what the batch without the missing file
\* holds for that input
C4_MissingFileIsolated ==
    (call \in BatchOps /\ phase = "returned"
       /\ Cardinality({ i \in 1..Len(inputs) : ~inputs[i].exists }) = 1) =>
        LET m == CHOOSE i \in 1..Len(inputs) : ~inputs[i].exists
            rest == BatchOutput(call, caps, RemoveAt(inputs, m))
        IN /\ IsRecord(out[m])
           /\ out[m].metadata.processing_method = "error"
           /\ \A i \in 1..Len(inputs) :
                 /\ i < m => out[i] = rest[i]
                 /\ i > m => out[i] = rest[i - 1]

\* the container format the name of an archive announces: .zip, .rar, .tar,
\* .tar.gz, .tar.bz2
AnnouncedFormat(f) ==
    LET n == Len(f.parts)
        last == IF n > 1 THEN Lower("." \o f.parts[n]) ELSE ""
    IN IF last = ".zip" THEN "zip"
       ELSE IF last = ".rar" THEN "rar"
       ELSE IF last = ".tar" THEN "tar"
       ELSE IF last \in {".gz", ".bz2"} /\ n > 2 /\ f.parts[n - 1] = "tar" THEN "tar"
       ELSE "none"

\* the formats each processor takes: those its dispatch accepts, and for the
\* document processor the PDF, image and document-loader types
SupportedFormat(name, f) ==
    CASE name = "process_archive_file" -> ArchiveRoute(f) # "unsupported"
      [] name = "process_email_file" -> Lower(Suffix(f)) \in {".msg", ".eml", ".pst"}
      [] name = "process_document" ->
             \/ Lower(Suffix(f)) = ".pdf"
             \/ Lower(Suffix(f)) \in image_exts
             \/ Lower(StripDot(f)) \in LoaderTypes

\* C5: for an existing file of a format the processor takes, a single-file
\* operation returns a record and never raises; when every rung including
\* the fallback read failed, the record is not enhanced and reports the error
C5_SingleFileNeverRaises ==
    (call \in FileOps /\ Finished /\ inputs[1].exists
       /\ SupportedFormat(call, inputs[1])) =>
        /\ phase = "returned"
        /\ IsRecord(out[1])
        /\ ("readable" \in DOMAIN inputs[1] /\ ~inputs[1].readable) =>
              /\ ~out[1].enhanced_processing
              /\ out[1].metadata.processing_method = "error"

\* C6: a returned record has enhanced_processing only if the richest method
\* completed for the whole file: no fallback rung produced the record, and no
\* page got its content from pytesseract because the OCR engine was
\* unavailable or threw
C6_EnhancedOnlyIfRichestSucceeded ==
    (call \in FileOps /\ phase = "returned" /\ out[1].enhanced_processing) =>
        /\ out[1].metadata.processing_method \notin {"fallback", "error", "gpt_researcher"}
        /\ call = "process_document" =>
              /\ caps.models
              /\ \A i \in 1..Len(out[1].pages) : inputs[1].pages[i].ocr # "raise"

\* C7: every value or slot returned by a single-file or batch operation is a
\* record with a raw_content text and a metadata mapping holding file_type
\* and processing_method
C7_EveryReturnedSlotIsARecord ==
    (phase = "returned") =>
        \A i \in 1..Len(out) :
            /\ IsRecord(out[i])
            /\ "text" \in DOMAIN out[i].raw_content
            /\ {"file_type", "processing_method"} \subseteq DOMAIN out[i].metadata

\* C8: an existing file named .zip, .rar, .tar, .tar.gz or .tar.bz2 is routed
\* to the handler of its container format (the TAR handler opening .tar.gz as
\* gzip and .tar.bz2 as bzip2) and is never refused as unsupported
C8_ArchiveRouting ==
    (call = "process_archive_file" /\ Finished /\ inputs[1].exists
       /\ AnnouncedFormat(inputs[1]) # "none") =>
        /\ phase = "returned"
        /\ ArchiveRoute(inputs[1]) = AnnouncedFormat(inputs[1])
        /\ Suffix(inputs[1]) = ".gz" => TarMode(inputs[1]) = "r:gz"
        /\ Suffix(inputs[1]) = ".bz2" => TarMode(inputs[1]) = "r:bz2"
        /\ out[1].metadata.processing_method = "archive_extraction" =>
              out[1].metadata.file_type = AnnouncedFormat(inputs[1])

\* the text entries (k) and the binary entries (m) of an archive
TextEntries(f) ==
    { i \in 1..Len(f.entries) : ~f.entries[i].isdir /\ IsValidUtf8(f.entries[i].payload) }
BinaryEntries(f) ==
    { i \in 1..Len(f.entries) : ~f.entries[i].isdir /\ ~IsValidUtf8(f.entries[i].payload) }

Extracted == out[1].metadata.processing_method = "archive_extraction"

\* C9: the record of an archive with k text entries and m binary entries, all
\* of which can be read, has file_count = k+m and lists the k+m entry names
\* in extracted_files
C9_FileCountIsTextPlusBinary ==
    (call = "process_archive_file" /\ phase = "returned" /\ Extracted
       /\ \A i \in 1..Len(inputs[1].entries) : inputs[1].entries[i].read_ok) =>
        LET f == inputs[1]
            md == out[1].metadata
        IN /\ md.file_count = Cardinality(TextEntries(f)) + Cardinality(BinaryEntries(f))
           /\ Len(md.extracted_files) = md.file_count
           /\ \A i \in TextEntries(f) \cup BinaryEntries(f) :
                 \E j \in 1..Len(md.extracted_files) :
                     md.extracted_files[j] = f.entries[i].name

\* C10: an archive entry whose bytes are not valid UTF-8 appears in
\* raw_content as type binary with the placeholder "[Binary file: <name>]",
\* and a text entry appears with its content verbatim
C10_BinaryEntryPlaceholder ==
    (call = "process_archive_file" /\ phase = "returned" /\ Extracted) =>
        LET f == inputs[1]
            sections == out[1].raw_content.sections
        IN /\ \A i \in BinaryEntries(f) : f.entries[i].read_ok =>
                 \E j \in 1..Len(sections) :
                     /\ sections[j].filename = f.entries[i].name
                     /\ sections[j].type = "binary"
                     /\ sections[j].content = << "[Binary file: " \o f.entries[i].name \o "]" >>
           /\ \A i \in TextEntries(f) : f.entries[i].read_ok =>
                 \E j \in 1..Len(sections) :
                     /\ sections[j].filename = f.entries[i].name
                     /\ sections[j].type = "text"
                     /\ sections[j].content = f.entries[i].payload

----------------------------------------------------------------------------
(* EML attachments *)

\* a body part: a text/plain or text/html part that is not sent as an attachment
IsBodyPart(part) ==
    StartsWithText(part.content_type) /\ ~MentionsAttachment(part.disposition)

\* the positions of the non-body MIME parts that have a filename
NamedNonBodyParts(msg) ==
    { i \in 1..Len(msg.parts) :
        ~IsBodyPart(msg.parts[i]) /\ msg.parts[i].filename # "" }

EmlParsed ==
    /\ call = "process_email_file" /\ phase = "returned"
    /\ out[1].metadata.processing_method = "email_parsing"

\* C11: for every EML input, metadata.attachments is the number of non-body
\* MIME parts that have a filename, and metadata.attachment_files contains the
\* filename of every such part
C11_AttachmentsAreNamedNonBodyParts ==
    EmlParsed =>
        LET msg == inputs[1].msg
            md == out[1].metadata
        IN /\ md.attachments = Cardinality(NamedNonBodyParts(msg))
           /\ \A i \in NamedNonBodyParts(msg) :
                 \E j \in 1..Len(md.attachment_files) :
                     md.attachment_files[j] = msg.parts[i].filename

----------------------------------------------------------------------------
(* chunker.py *)

\* page_content is a sequence of one-character strings, so that splitting,
\* stripping, joining and len() are computed on the characters

Rep(c, n) == [i \in 1..n |-> c]

IsSpace(c) == c \in { " ", "\n" }

SetMin(S) == CHOOSE x \in S : \A y \in S : x <= y

\* str.strip(): what lies between the first and the last non-space character
Strip(s) ==
    IF \A i \in 1..Len(s) : IsSpace(s[i]) THEN <<>>
    ELSE LET first == CHOOSE i \in 1..Len(s) :
                          ~IsSpace(s[i]) /\ \A j \in 1..(i - 1) : IsSpace(s[j])
             back == CHOOSE k \in 1..Len(s) :
                         /\ ~IsSpace(s[Len(s) + 1 - k])
                         /\ \A j \in 1..(k - 1) : IsSpace(s[Len(s) + 1 - j])
         IN SubSeq(s, first, Len(s) + 1 - back)

\* sep.join(items), the list halved at each step
RECURSIVE Join(_, _)
Join(items, sep) ==
    IF items = <<>> THEN <<>>
    ELSE IF Len(items) = 1 THEN items[1]
    ELSE LET h == Len(items) \div 2 IN
         Join(SubSeq(items, 1, h), sep) \o sep
         \o Join(SubSeq(items, h + 1, Len(items)), sep)

NonEmpty(items) == SelectSeq(items, LAMBDA s : s # <<>>)

IsTerminator(c) == c \in { ".", "!", "?" }

RECURSIVE Ascending(_)
Ascending(S) ==
    IF S = {} THEN <<>> ELSE << SetMin(S) >> \o Ascending(S \ { SetMin(S) })

\* re.split(r'[.!?]+', text): the pieces between the runs of terminators, in
\* order; the empty piece a run leaves at either end of the text is dropped
\* here, as the list comprehension that follows drops it
re_split(text) ==
    LET starts == { i \in 1..Len(text) :
                      ~IsTerminator(text[i]) /\ (i = 1 \/ IsTerminator(text[i - 1])) }
        PieceEnd(i) == SetMin({ j \in i..Len(text) :
                                  j = Len(text) \/ IsTerminator(text[j + 1]) })
        order == Ascending(starts)
    IN [k \in 1..Len(order) |-> SubSeq(text, order[k], PieceEnd(order[k]))]

_split_into_sentences(text) ==
    LET pieces == re_split(text) IN
    NonEmpty([i \in 1..Len(pieces) |-> Strip(pieces[i])])

\* self.model.encode(sentences): the embedding model is a function of the
\* sentence; here the first character of a sentence names its topic
Embed(sentence) ==
    CASE Head(sentence) = "t" -> <<1, 0>>
      [] Head(sentence) = "u" -> <<2, 1>>
      [] Head(sentence) = "v" -> <<1, 1>>
      [] Head(sentence) = "w" -> <<1, 2>>
      [] OTHER -> <<0, 1>>

encode(sentences) == [i \in 1..Len(sentences) |-> Embed(sentences[i])]

\* np.mean(current_chunk_embeddings, axis=0) as an exact fraction
RECURSIVE VecSum(_)
VecSum(embs) ==
    IF embs = <<>> THEN <<0, 0>>
    ELSE LET rest == VecSum(Tail(embs)) IN
         << Head(embs)[1] + rest[1], Head(embs)[2] + rest[2] >>

np_mean(embs) == [num |-> VecSum(embs), den |-> Len(embs)]

\* util.cos_sim(embedding, centroid).item() < threshold, the threshold being
\* the fraction thr.num / thr.den >= 0; the centroid's positive denominator
\* cancels in the cosine
SimilarityBelow(embedding, centroid, thr) ==
    LET dot == embedding[1] * centroid.num[1] + embedding[2] * centroid.num[2]
        n1 == embedding[1] * embedding[1] + embedding[2] * embedding[2]
        n2 == centroid.num[1] * centroid.num[1] + centroid.num[2] * centroid.num[2]
    IN ~( /\ dot >= 0
          /\ thr.den * thr.den * dot * dot >= thr.num * thr.num * n1 * n2 )

\* the loop of _group_sentences_semantically, and its copy inside
\* _semantic_chunk_original: i is the next sentence, chunks the closed chunks,
\* current_chunk and current_chunk_embeddings the running chunk
RECURSIVE GroupLoop_without_flush(_, _, _, _, _, _, _)
GroupLoop_without_flush(cfg, sentences, embeddings, i, chunks, current_chunk, current_chunk_embeddings) ==
    IF i > Len(sentences) THEN chunks
    ELSE IF current_chunk = <<>>
    THEN GroupLoop_without_flush(cfg, sentences, embeddings, i + 1, chunks,
                                 << sentences[i] >>, << embeddings[i] >>)
    ELSE LET should_start_new ==
                 \/ SimilarityBelow(embeddings[i], np_mean(current_chunk_embeddings),
                                    cfg.similarity_threshold)
                 \/ Len(Join(current_chunk, <<" ">>)) > cfg.max_chunk_size
         IN IF should_start_new
            THEN GroupLoop_without_flush(cfg, sentences, embeddings, i + 1,
                                         Append(chunks, Join(current_chunk, <<" ">>)),
                                         << sentences[i] >>, << embeddings[i] >>)
            ELSE GroupLoop_without_flush(cfg, sentences, embeddings, i + 1, chunks,
                                         Append(current_chunk, sentences[i]),
                                         Append(current_chunk_embeddings, embeddings[i]))

RECURSIVE GroupLoop_first_sentence(_, _, _, _, _, _, _)
GroupLoop_first_sentence(cfg, sentences, embeddings, i, chunks, current_chunk, current_chunk_embeddings) ==
    IF i > Len(sentences)
    THEN IF current_chunk # <<>> THEN Append(chunks, Join(current_chunk, <<" ">>))
         ELSE chunks
    ELSE IF current_chunk = <<>>
    THEN GroupLoop_first_sentence(cfg, sentences, embeddings, i + 1, chunks,
                                  << sentences[i] >>, << embeddings[i] >>)
    ELSE LET should_start_new ==
                 \/ SimilarityBelow(embeddings[i],
                                    np_mean(<< current_chunk_embeddings[1] >>),
                                    cfg.similarity_threshold)
                 \/ Len(Join(current_chunk, <<" ">>)) > cfg.max_chunk_size
         IN IF should_start_new
            THEN GroupLoop_first_sentence(cfg, sentences, embeddings, i + 1,
                                          Append(chunks, Join(current_chunk, <<" ">>)),
                                          << sentences[i] >>, << embeddings[i] >>)
            ELSE GroupLoop_first_sentence(cfg, sentences, embeddings, i + 1, chunks,
                                          Append(current_chunk, sentences[i]),
                                          Append(current_chunk_embeddings, embeddings[i]))

RECURSIVE GroupLoop(_, _, _, _, _, _, _)
GroupLoop(cfg, sentences, embeddings, i, chunks, current_chunk, current_chunk_embeddings) ==
    IF i > Len(sentences)
    THEN IF current_chunk # <<>> THEN Append(chunks, Join(current_chunk, <<" ">>))
         ELSE chunks
    ELSE IF current_chunk = <<>>
    THEN GroupLoop(cfg, sentences, embeddings, i + 1, chunks,
                   << sentences[i] >>, << embeddings[i] >>)
    ELSE LET should_start_new ==
                 \/ SimilarityBelow(embeddings[i], np_mean(current_chunk_embeddings),
                                    cfg.similarity_threshold)
                 \/ Len(Join(current_chunk, <<" ">>)) > cfg.max_chunk_size
         IN IF should_start_new
            THEN GroupLoop(cfg, sentences, embeddings, i + 1,
                           Append(chunks, Join(current_chunk, <<" ">>)),
                           << sentences[i] >>, << embeddings[i] >>)
            ELSE GroupLoop(cfg, sentences, embeddings, i + 1, chunks,
                           Append(current_chunk, sentences[i]),
                           Append(current_chunk_embeddings, embeddings[i]))

_group_sentences_semantically(cfg, sentences, embeddings) ==
    GroupLoop(cfg, sentences, embeddings, 1, <<>>, <<>>, <<>>)

\* dict.copy() followed by update(): the keys of both, the values of extra
\* where both have the key
DictUpdate(metadata, extra) ==
    [k \in DOMAIN metadata \cup DOMAIN extra |->
        IF k \in DOMAIN extra THEN extra[k] ELSE metadata[k]]

Document(page_content, metadata) ==
    [page_content |-> page_content, metadata |-> metadata]

\* the positions of chunks that pass the min_chunk_size test, in order
RECURSIVE KeptFrom(_, _, _)
KeptFrom(cfg, chunks, i) ==
    IF i > Len(chunks) THEN <<>>
    ELSE IF Len(Strip(chunks[i])) >= cfg.min_chunk_size
    THEN << i >> \o KeptFrom(cfg, chunks, i + 1)
    ELSE KeptFrom(cfg, chunks, i + 1)

\* an operation of the chunker ends by returning documents or by raising
Chunks(docs) == [raised |-> FALSE, docs |-> docs]
ChunkingRaised == [raised |-> TRUE, docs |-> <<>>]

\* encode_ok: self.model.encode(sentences) and the similarity computations of
\* the grouping return instead of throwing; both are reached exactly when the
\* text has two sentences or more
_semantic_chunk_grouping_single_sentences(cfg, document, encode_ok) ==
    LET text == document.page_content
        metadata == document.metadata
        sentences == _split_into_sentences(text)
    IN IF Len(sentences) < 1 THEN Chunks(<< Document(text, metadata) >>)
       ELSE IF ~encode_ok THEN ChunkingRaised
       ELSE LET chunks == _group_sentences_semantically(cfg, sentences, encode(sentences))
                kept == KeptFrom(cfg, chunks, 1)
            IN Chunks([j \in 1..Len(kept) |->
                   Document(chunks[kept[j]],
                            DictUpdate(metadata,
                                [chunk_index |-> kept[j] - 1,
                                 chunking_method |-> "semantic",
                                 total_chunks |-> Len(chunks)]))])

_semantic_chunk(cfg, document, encode_ok) ==
    LET text == document.page_content
        metadata == document.metadata
        sentences == _split_into_sentences(text)
    IN IF Len(sentences) < 2 THEN Chunks(<< Document(text, metadata) >>)
       ELSE IF ~encode_ok THEN ChunkingRaised
       ELSE LET chunks == _group_sentences_semantically(cfg, sentences, encode(sentences))
                kept == KeptFrom(cfg, chunks, 1)
            IN Chunks([j \in 1..Len(kept) |->
                   Document(chunks[kept[j]],
                            DictUpdate(metadata,
                                [chunk_index |-> kept[j] - 1,
                                 chunking_method |-> "semantic",
                                 total_chunks |-> Len(chunks)]))])

_semantic_chunk_original(cfg, document, encode_ok) ==
    LET text == document.page_content
        metadata == document.metadata
        sentences == _split_into_sentences(text)
    IN IF Len(sentences) < 2 THEN Chunks(<< Document(text, metadata) >>)
       ELSE IF ~encode_ok THEN ChunkingRaised
       ELSE LET chunks == GroupLoop(cfg, sentences, encode(sentences), 1, <<>>, <<>>, <<>>)
                kept == KeptFrom(cfg, chunks, 1)
            IN Chunks([j \in 1..Len(kept) |->
                   Document(chunks[kept[j]],
                            DictUpdate(metadata,
                                [chunk_index |-> kept[j] - 1,
                                 chunking_method |-> "semantic_original",
                                 total_chunks |-> Len(chunks),
                                 similarity_threshold |-> cfg.similarity_threshold]))])

\* RecursiveCharacterTextSplitter(chunk_size, chunk_overlap), the splitter
\* behind self.fallback_chunker: separators "\n\n", "\n", " ", "" tried in
\* this order, separators kept at the start of the piece that follows them
Separators == << <<"\n", "\n">>, <<"\n">>, <<" ">>, <<>> >>

Matches(text, sep, i) == SubSeq(text, i, i + Len(sep) - 1) = sep

Occurs(sep, text) == \E i \in 1..(Len(text) - Len(sep) + 1) : Matches(text, sep, i)

\* the pieces of text between the occurrences of a non-empty separator, each
\* occurrence opening the piece that follows it: start is where the current
\* piece begins, from where the search for the next occurrence begins
RECURSIVE SplitAt(_, _, _, _)
SplitAt(text, sep, start, from) ==
    LET found == { i \in from..(Len(text) - Len(sep) + 1) : Matches(text, sep, i) } IN
    IF found = {} THEN << SubSeq(text, start, Len(text)) >>
    ELSE << SubSeq(text, start, SetMin(found) - 1) >>
         \o SplitAt(text, sep, SetMin(found), SetMin(found) + Len(sep))

_split_text_with_regex(text, sep) ==
    IF sep = <<>> THEN [i \in 1..Len(text) |-> << text[i] >>]
    ELSE NonEmpty(SplitAt(text, sep, 1, 1))

\* _join_docs: the pieces joined and stripped; <<>> stands for None
_join_docs(docs) == Strip(Join(docs, <<>>))

\* total: the length of the pieces of the window (the separator that joins
\* them is empty), the list halved at each step
RECURSIVE PieceLen(_)
PieceLen(docs) ==
    IF docs = <<>> THEN 0
    ELSE IF Len(docs) = 1 THEN Len(docs[1])
    ELSE LET h == Len(docs) \div 2 IN
         PieceLen(SubSeq(docs, 1, h)) + PieceLen(SubSeq(docs, h + 1, Len(docs)))

\* the while loop of _merge_splits that drops pieces from the front of the
\* window until the overlap is small enough and the next piece fits
RECURSIVE DropFront(_, _, _, _)
DropFront(current_doc, len, chunk_size, chunk_overlap) ==
    LET total == PieceLen(current_doc) IN
    IF total > chunk_overlap \/ (total + len > chunk_size /\ total > 0)
    THEN DropFront(Tail(current_doc), len, chunk_size, chunk_overlap)
    ELSE current_doc

\* the loop of _merge_splits, one window at a time: the window current_doc
\* takes the pieces that still fit, is emitted when the piece at position k
\* does not fit, and then keeps its tail as the overlap
RECURSIVE MergeLoop(_, _, _, _, _)
MergeLoop(splits, docs, current_doc, chunk_size, chunk_overlap) ==
    LET Window(k) == current_doc \o SubSeq(splits, 1, k - 1)
        full == { k \in 1..Len(splits) :
                    /\ Window(k) # <<>>
                    /\ PieceLen(Window(k)) + Len(splits[k]) > chunk_size }
    IN IF full = {}
       THEN LET doc == _join_docs(current_doc \o splits) IN
            IF doc # <<>> THEN Append(docs, doc) ELSE docs
       ELSE LET k == SetMin(full)
                doc == _join_docs(Window(k))
            IN MergeLoop(SubSeq(splits, k + 1, Len(splits)),
                         IF doc # <<>> THEN Append(docs, doc) ELSE docs,
                         Append(DropFront(Window(k), Len(splits[k]), chunk_size,
                                          chunk_overlap),
                                splits[k]),
                         chunk_size, chunk_overlap)

_merge_splits(splits, chunk_size, chunk_overlap) ==
    MergeLoop(splits, <<>>, <<>>, chunk_size, chunk_overlap)

\* the first separator that is "" or occurs in the text
RECURSIVE PickSeparator(_, _, _)
PickSeparator(text, separators, i) ==
    IF i >= Len(separators) \/ separators[i] = <<>> \/ Occurs(separators[i], text)
    THEN i
    ELSE PickSeparator(text, separators, i + 1)

RECURSIVE _split_text(_, _, _, _)
\* the loop of _split_text over the pieces: the pieces shorter than
\* chunk_size gather in _good_splits and are merged when a longer piece (or
\* the end) arrives; a longer piece is split with the separators that remain
RECURSIVE SplitsLoop(_, _, _, _, _)
SplitsLoop(splits, final_chunks, new_separators, chunk_size, chunk_overlap) ==
    LET long == { i \in 1..Len(splits) : ~(Len(splits[i]) < chunk_size) } IN
    IF long = {}
    THEN final_chunks \o _merge_splits(splits, chunk_size, chunk_overlap)
    ELSE LET b == SetMin(long)
             s == splits[b]
         IN SplitsLoop(SubSeq(splits, b + 1, Len(splits)),
                       final_chunks
                           \o _merge_splits(SubSeq(splits, 1, b - 1), chunk_size,
                                            chunk_overlap)
                           \o (IF new_separators = <<>> THEN << s >>
                               ELSE _split_text(s, new_separators, chunk_size,
                                                chunk_overlap)),
                       new_separators, chunk_size, chunk_overlap)

_split_text(text, separators, chunk_size, chunk_overlap) ==
    LET i == PickSeparator(text, separators, 1)
        separator == separators[i]
        new_separators == IF separator = <<>> THEN <<>>
                          ELSE SubSeq(separators, i + 1, Len(separators))
    IN SplitsLoop(_split_text_with_regex(text, separator), <<>>,
                  new_separators, chunk_size, chunk_overlap)

\* split_documents([document]): one Document per piece, each with a copy of
\* the parent's metadata and nothing else
split_documents(document, chunk_size, chunk_overlap) ==
    LET texts == _split_text(document.page_content, Separators, chunk_size, chunk_overlap)
    IN [j \in 1..Len(texts) |-> Document(texts[j], document.metadata)]

fallback_chunker(cfg, document) ==
    split_documents(document, cfg.max_chunk_size, cfg.chunk_overlap)

LegalChunker_chunk_document(c, document, encode_ok) ==
    IF ~c.model THEN Chunks(fallback_chunker(c.config, document))
    ELSE LET r == _semantic_chunk(c.config, document, encode_ok) IN
         IF r.raised THEN Chunks(fallback_chunker(c.config, document)) ELSE r

chunk_document_semantic_propagating(c, document, encode_ok) ==
    IF ~c.model THEN Chunks(fallback_chunker(c.config, document))
    ELSE _semantic_chunk_original(c.config, document, encode_ok)

chunk_document_semantic(c, document, encode_ok) ==
    IF ~c.model THEN Chunks(fallback_chunker(c.config, document))
    ELSE LET r == _semantic_chunk_original(c.config, document, encode_ok) IN
         IF r.raised THEN Chunks(fallback_chunker(c.config, document)) ELSE r

\* integration.py: RecursiveCharacterTextSplitter(chunk_size=1000, chunk_overlap=200)
_fallback_chunking(document) == Chunks(split_documents(document, 1000, 200))

\* integration.py: chunk_document_semantic and chunk_document catch what the
\* semantic path throws, so neither except branch of the wrapper is entered
LegalDocumentEnhancement_chunk_document(c, document, encode_ok) ==
    IF c.use_semantic_chunking
    THEN LET r == chunk_document_semantic(c, document, encode_ok) IN
         IF ~r.raised THEN r
         ELSE LET r2 == LegalChunker_chunk_document(c, document, encode_ok) IN
              IF ~r2.raised THEN r2 ELSE _fallback_chunking(document)
    ELSE _fallback_chunking(document)

\* LegalChunker.__init__ arguments: the defaults, the values of the spec's
\* worked scenario, and a small window that short texts exceed
DefaultConfig ==
    [similarity_threshold |-> [num |-> 3, den |-> 4], min_chunk_size |-> 200,
     max_chunk_size |-> 1000, chunk_overlap |-> 100]
ScenarioConfig ==
    [similarity_threshold |-> [num |-> 3, den |-> 4], min_chunk_size |-> 10,
     max_chunk_size |-> 1000, chunk_overlap |-> 100]
SmallConfig ==
    [similarity_threshold |-> [num |-> 3, den |-> 4], min_chunk_size |-> 3,
     max_chunk_size |-> 6, chunk_overlap |-> 2]

ChunkerConfigs == { DefaultConfig, ScenarioConfig, SmallConfig }

\* model: self.model is loaded; use_semantic_chunking: the wrapper owns a
\* chunker, which it builds with the default arguments
ChunkerSnapshots ==
    [model : BOOLEAN, config : ChunkerConfigs, use_semantic_chunking : {TRUE}]
    \cup [model : {FALSE}, config : {DefaultConfig}, use_semantic_chunking : {FALSE}]

\* pieces of text: a sentence and what follows it
ShortSegments ==
    { <<"t", "a", ".", " ">>, <<"u", "b", "c", ".">>, <<"v", "!", "?", "\n", "\n">>,
      <<"i", "d", "e", "f", ".", " ">>, <<" ">>, <<"t", "a">> }

LongSegments ==
    { <<"t">> \o Rep("x", 11) \o <<".", " ">>, <<"u">> \o Rep("y", 13) \o <<".", " ">>,
      <<"i">> \o Rep("z", 10) \o <<".">>, <<"i", "d", "e", "f", ".">>,
      <<"w">> \o Rep("q", 12) \o <<"?", " ">> }

PageSegments == { <<"t">> \o Rep("x", 209) \o <<".", " ">>, <<"i">> \o Rep("z", 219) \o <<".">> }

TextsOf(S, lo, hi) ==
    { Join(segs, <<>>) : segs \in UNION { [1..k -> S] : k \in lo..hi } }

\* a first sentence of exactly max_chunk_size = 1000 characters, and one of
\* 1001 characters
LongestSegments ==
    { <<"t">> \o Rep("x", 999) \o <<".", " ">>, <<"t">> \o Rep("x", 1000) \o <<".", " ">> }

\* three-sentence texts that open with such a sentence
LongSentenceTexts ==
    { Join(<< first, second, third >>, <<>>) :
        first \in LongestSegments, second \in LongSegments, third \in LongSegments }

\* the page-long texts are chunked by a chunker built with the defaults; the
\* texts with a sentence as long as max_chunk_size by a chunker built with
\* the values of the worked scenario whose model is loaded
Texts(c, n) ==
    TextsOf(ShortSegments, 0, n) \cup TextsOf(LongSegments, 2, 3)
    \cup (IF c.config = DefaultConfig THEN TextsOf(PageSegments, 2, 2) ELSE {})
    \cup (IF c.config = ScenarioConfig /\ c.model THEN LongSentenceTexts ELSE {})

ParentMetadata == [source |-> "test_contract.pdf", type |-> "legal_contract"]

\* encoding succeeds on the texts of LongSentenceTexts
ChunkRequests(c, n) ==
    { req \in [document : [page_content : Texts(c, n), metadata : { ParentMetadata }],
               encode_ok : BOOLEAN] :
        req.document.page_content \in LongSentenceTexts => req.encode_ok }

InitChunk ==
    /\ caps \in ChunkerSnapshots
    /\ call = "none"
    /\ inputs = <<>>
    /\ results = <<>>
    /\ completed = <<>>
    /\ phase = "idle"
    /\ out = <<>>
    /\ must_cancel = NoCancel

\* the call returns the list r.docs, or raises
ChunkCall(name, req, r) ==
    /\ call' = name
    /\ inputs' = << req >>
    /\ phase' = IF r.raised THEN "raised" ELSE "returned"
    /\ out' = r.docs
    /\ UNCHANGED <<caps, results, completed, must_cancel>>

ChunkDocument ==
    /\ phase = "idle"
    /\ \E req \in ChunkRequests(caps, MaxSegments) :
        /\ req.encode_ok \/ caps.model
        /\ ChunkCall("LegalChunker.chunk_document", req,
                     LegalChunker_chunk_document(caps, req.document, req.encode_ok))

ChunkDocumentSemantic ==
    /\ phase = "idle"
    /\ \E req \in ChunkRequests(caps, MaxSegments) :
        /\ req.encode_ok \/ caps.model
        /\ ChunkCall("LegalChunker.chunk_document_semantic", req,
                     chunk_document_semantic(caps, req.document, req.encode_ok))

EnhancementChunkDocument ==
    /\ phase = "idle"
    /\ \E req \in ChunkRequests(caps, MaxSegments) :
        /\ caps.config = DefaultConfig
        /\ req.encode_ok \/ caps.model
        /\ ChunkCall("LegalDocumentEnhancement.chunk_document", req,
                     LegalDocumentEnhancement_chunk_document(caps, req.document,
                                                             req.encode_ok))

NextChunk == ChunkDocument \/ ChunkDocumentSemantic \/ EnhancementChunkDocument

SpecChunk == InitChunk /\ [][NextChunk]_vars

----------------------------------------------------------------------------
(* semantic chunking *)

ChunkerOps == { "LegalChunker.chunk_document", "LegalChunker.chunk_document_semantic" }

\* the request was served by the semantic path of the chunker
SemanticServed ==
    /\ call \in ChunkerOps /\ phase = "returned"
    /\ caps.model /\ inputs[1].encode_ok

SentencesOf(req) == _split_into_sentences(req.document.page_content)

\* the chunk is one sentence of the document, or the whole of a text that has
\* fewer than two sentences
IsSingleSentence(content, req) ==
    \/ \E i \in 1..Len(SentencesOf(req)) : content = SentencesOf(req)[i]
    \/ Len(SentencesOf(req)) < 2 /\ content = req.document.page_content

\* C12: every chunk produced by semantic chunking is at most max_chunk_size
\* long, except a chunk that is one single sentence which alone is longer
C12_ChunkWithinMaxUnlessSingleSentence ==
    SemanticServed =>
        \A j \in 1..Len(out) :
            \/ Len(out[j].page_content) <= caps.config.max_chunk_size
            \/ IsSingleSentence(out[j].page_content, inputs[1])

\* the text without its whitespace
Squeeze(s) == SelectSeq(s, LAMBDA c : ~IsSpace(c))

\* the consecutive runs lo..hi that the cut positions make of sentences 1..n
RunsOf(n, cuts) ==
    LET bounds == Ascending(cuts \cup {n}) IN
    [k \in 1..Len(bounds) |->
        [lo |-> IF k = 1 THEN 1 ELSE bounds[k - 1] + 1, hi |-> bounds[k]]]

\* out is, chunk by chunk and in order, the runs of a split of the sentences
\* into consecutive runs that pass the min_chunk_size filter: a chunk holds
\* the sentences of its run, modulo whitespace, and its chunk_index is the
\* position of the run
ChunksAreSurvivingRuns(req) ==
    LET sentences == SentencesOf(req)
        n == Len(sentences)
    IN \E cuts \in SUBSET (1..(n - 1)) :
           LET runs == RunsOf(n, cuts)
               groups == [k \in 1..Len(runs) |->
                             Join(SubSeq(sentences, runs[k].lo, runs[k].hi), <<" ">>)]
               kept == KeptFrom(caps.config, groups, 1)
           IN /\ Len(out) = Len(kept)
              /\ \A j \in 1..Len(out) :
                    /\ "chunk_index" \in DOMAIN out[j].metadata
                    /\ out[j].metadata.chunk_index = kept[j] - 1
                    /\ Squeeze(out[j].page_content)
                         = Squeeze(Join(SubSeq(sentences, runs[kept[j]].lo, runs[kept[j]].hi), <<>>))

\* C13 as stated: the chunks returned by semantic chunking, in chunk_index
\* order, are modulo whitespace exactly the sentences of the groups that
\* passed the minimum-size filter, as contiguous runs in document order
C13_ChunksReconstructSurvivingSentences ==
    SemanticServed => ChunksAreSurvivingRuns(inputs[1])

\* C13 amended: for a text of at least two sentences, the chunks returned by
\* semantic chunking, in chunk_index order, are modulo whitespace exactly the
\* sentences of the groups that passed the minimum-size filter, as contiguous
\* runs in document order, none duplicated, reordered or moved
C13_GroupedChunksReconstructSurvivingSentences ==
    (SemanticServed /\ Len(SentencesOf(inputs[1])) >= 2) =>
        ChunksAreSurvivingRuns(inputs[1])

\* three groups were formed, the middle one was dropped by the filter and the
\* two others were returned
C13_Witness ==
    /\ SemanticServed
    /\ Len(SentencesOf(inputs[1])) >= 3
    /\ Len(out) = 2
    /\ out[1].metadata.total_chunks = 3
    /\ out[1].metadata.chunk_index = 0 /\ out[2].metadata.chunk_index = 2

\* the worked scenario: a three-sentence text chunked with max_chunk_size =
\* 1000, min_chunk_size = 10 and similarity_threshold = 0.75, whose 2nd
\* sentence is similar to the 1st and whose 3rd is dissimilar to the centroid
\* of the first two
ThreeSentenceScenario ==
    /\ SemanticServed
    /\ caps.config = ScenarioConfig
    /\ Len(SentencesOf(inputs[1])) = 3
    /\ LET e == encode(SentencesOf(inputs[1]))
           thr == caps.config.similarity_threshold
       IN /\ ~SimilarityBelow(e[2], np_mean(<< e[1] >>), thr)
          /\ SimilarityBelow(e[3], np_mean(<< e[1], e[2] >>), thr)

TwoChunksFirstTwoThenThird ==
    LET sentences == SentencesOf(inputs[1]) IN
    /\ Len(out) = 2
    /\ out[1].page_content = Join(<< sentences[1], sentences[2] >>, <<" ">>)
    /\ out[2].page_content = sentences[3]

\* C14 as stated: the scenario text yields exactly 2 chunks, the first two
\* sentences together, then the third alone
C14_ScenarioYieldsTwoChunks ==
    ThreeSentenceScenario => TwoChunksFirstTwoThenThird

\* both groups of the scenario are at least min_chunk_size long
GroupsPassFilter ==
    LET sentences == SentencesOf(inputs[1]) IN
    /\ Len(Join(<< sentences[1], sentences[2] >>, <<" ">>)) >= caps.config.min_chunk_size
    /\ Len(sentences[3]) >= caps.config.min_chunk_size

\* the 1st sentence of the scenario is at most max_chunk_size long, so the
\* running chunk that holds it alone is not closed for its size
FirstSentenceWithinMax ==
    Len(SentencesOf(inputs[1])[1]) <= caps.config.max_chunk_size

\* C14 amended: a sentence joins the running chunk only when its cosine
\* similarity to the centroid is at least the threshold, so the scenario text
\* whose 1st sentence is at most max_chunk_size long and whose two groups are
\* each at least min_chunk_size long yields exactly 2 chunks, the first two
\* sentences together, then the third alone
C14_ScenarioWithinSizesYieldsTwoChunks ==
    (ThreeSentenceScenario /\ FirstSentenceWithinMax /\ GroupsPassFilter) =>
        TwoChunksFirstTwoThenThird

\* the scenario ran on a text whose 3rd sentence is similar to the 1st alone
\* but dissimilar to the centroid of the first two
C14_Witness ==
    /\ ThreeSentenceScenario /\ FirstSentenceWithinMax /\ GroupsPassFilter
    /\ LET e == encode(SentencesOf(inputs[1])) IN
       ~SimilarityBelow(e[3], np_mean(<< e[1] >>), caps.config.similarity_threshold)
    /\ Len(out) = 2

AllChunkOps == ChunkerOps \cup { "LegalDocumentEnhancement.chunk_document" }

\* the operation call applied to a request
ChunkOp(name, c, req) ==
    CASE name = "LegalChunker.chunk_document" ->
             LegalChunker_chunk_document(c, req.document, req.encode_ok)
      [] name = "LegalChunker.chunk_document_semantic" ->
             chunk_document_semantic(c, req.document, req.encode_ok)
      [] name = "LegalDocumentEnhancement.chunk_document" ->
             LegalDocumentEnhancement_chunk_document(c, req.document, req.encode_ok)

\* a text of fewer than 2 sentences, shorter than max_chunk_size, was chunked
MinimalTextChunked ==
    /\ call \in AllChunkOps /\ phase = "returned"
    /\ Len(SentencesOf(inputs[1])) < 2
    /\ Len(inputs[1].document.page_content) < caps.config.max_chunk_size

\* the one chunk returned is the input text, and chunking it again returns it
OneChunkEqualToInputAndIdempotent ==
    /\ Len(out) = 1
    /\ out[1].page_content = inputs[1].document.page_content
    /\ ChunkOp(call, caps, [document |-> out[1], encode_ok |-> inputs[1].encode_ok])
         = Chunks(out)

\* C15 as stated: chunking a text of fewer than 2 sentences that is shorter
\* than max_chunk_size returns exactly one chunk whose content is the input
\* text, and chunking that chunk again returns the same chunk
C15_MinimalTextIsOneChunkAndIdempotent ==
    MinimalTextChunked => OneChunkEqualToInputAndIdempotent

\* C15 amended: chunking, by a chunker whose embedding model is loaded, a text
\* of fewer than 2 sentences that is shorter than max_chunk_size returns
\* exactly one chunk whose content is the input text, and chunking that chunk
\* again returns the same chunk
C15_MinimalTextWithModelIsOneChunkAndIdempotent ==
    (MinimalTextChunked /\ caps.model) => OneChunkEqualToInputAndIdempotent

\* a one-sentence text that ends in a terminator and a space was chunked by a
\* chunker whose model is loaded
C15_Witness ==
    /\ MinimalTextChunked /\ caps.model
    /\ Len(SentencesOf(inputs[1])) = 1
    /\ SentencesOf(inputs[1])[1] # inputs[1].document.page_content
    /\ Len(out) = 1

\* a chunk request made with semantic chunking enabled to a chunker whose
\* model is absent
ServedWithoutModel ==
    /\ call \in AllChunkOps /\ phase = "returned"
    /\ ~caps.model /\ caps.use_semantic_chunking

\* C16: when the chunker's model is absent, a request made with semantic
\* chunking enabled is served by the fixed-window splitter (window
\* max_chunk_size, overlap chunk_overlap), and every returned chunk's metadata
\* has chunking_method = "fixed-window"
C16_FallbackChunksTaggedFixedWindow ==
    ServedWithoutModel =>
        /\ out = fallback_chunker(caps.config, inputs[1].document)
        /\ \A j \in 1..Len(out) :
              /\ "chunking_method" \in DOMAIN out[j].metadata
              /\ out[j].metadata.chunking_method = "fixed-window"

\* chunks formed by semantic grouping were returned
GroupedChunksReturned ==
    /\ call \in AllChunkOps /\ phase = "returned"
    /\ caps.model /\ inputs[1].encode_ok
    /\ Len(SentencesOf(inputs[1])) >= 2

\* C17: every chunk returned by semantic chunking, through
\* LegalChunker.chunk_document, LegalChunker.chunk_document_semantic and
\* LegalDocumentEnhancement.chunk_document alike, carries chunk_index,
\* chunking_method = "semantic", total_chunks and the similarity threshold
\* used, together with every key of the parent document's metadata
C17_SemanticChunkMetadata ==
    GroupedChunksReturned =>
        \A j \in 1..Len(out) :
            LET md == out[j].metadata IN
            /\ { "chunk_index", "chunking_method", "total_chunks",
                 "similarity_threshold" } \subseteq DOMAIN md
            /\ md.chunking_method = "semantic"
            /\ md.similarity_threshold = caps.config.similarity_threshold
            /\ DOMAIN inputs[1].document.metadata \subseteq DOMAIN md


----------------------------------------------------------------------------
(* PDF pages: a page whose OCR fails *)

\* a process_document call on a PDF the OCR engine was run on page by page
PdfOcrServed ==
    /\ call = "process_document"
    /\ phase \in {"returned", "raised"}
    /\ Lower(Suffix(inputs[1])) = ".pdf"
    /\ inputs[1].exists /\ inputs[1].raster_ok
    /\ caps.advanced /\ caps.models

\* the pages of the request on which self.ocr_engine.ocr throws
OcrFailedPages == { i \in 1..Len(inputs[1].pages) : inputs[1].pages[i].ocr = "raise" }

\* the returned record covers every page: a failed page carries the
\* pytesseract text, a page with OCR lines carries those lines
RecordCoversAllPages ==
    /\ phase = "returned"
    /\ out[1].enhanced_processing
    /\ "pages" \in DOMAIN out[1]
    /\ Len(out[1].pages) = Len(inputs[1].pages)
    /\ \A i \in 1..Len(inputs[1].pages) :
          out[1].pages[i].content =
              IF inputs[1].pages[i].ocr = "lines"
              THEN OcrText(inputs[1].pages[i], i - 1)
              ELSE TessText(inputs[1].pages[i], i - 1)

\* C19: in PDF processing, when the OCR engine fails on one page, that page
\* gets the generic OCR utility's text, every other page keeps the content
\* of its own OCR run, and the document is returned as one record covering
\* all pages instead of being aborted.
C19_OcrFailureDegradesOnlyThatPage ==
    (PdfOcrServed /\ OcrFailedPages # {}) => RecordCoversAllPages


----------------------------------------------------------------------------
(* PDF pages: tables in the combined content *)

\* process_document returned the record _process_pdf_enhanced builds
PdfEnhancedReturned ==
    /\ call = "process_document"
    /\ phase = "returned"
    /\ Lower(Suffix(inputs[1])) = ".pdf"
    /\ out[1].enhanced_processing

\* positions of part in the list the combined content was joined from
PositionsOf(parts, part) == { k \in 1..Len(parts) : parts[k] = part }

\* the page's marker, then its text, then the table's marker, in that order
TableFollowsItsPage(parts, page, table) ==
    \E a \in PositionsOf(parts, PageMarker(page.page_number)) :
        /\ a + 1 \in PositionsOf(parts, page.content)
        /\ \E c \in PositionsOf(parts, TableMarker(table)) :
              /\ c > a + 1
              /\ \A b \in (a + 1)..c : \A q \in 1..Len(out[1].pages) :
                    parts[b] = PageMarker(out[1].pages[q].page_number)
                        => out[1].pages[q] = page

\* the page markers stand in page order
MarkersInPageOrder(parts) ==
    \A i, j \in 1..Len(out[1].pages) :
        \A a \in PositionsOf(parts, PageMarker(out[1].pages[i].page_number)) :
            \A b \in PositionsOf(parts, PageMarker(out[1].pages[j].page_number)) :
                i < j => a < b

\* C20: the combined content of a multi-page document lists pages in page
\* order, each introduced by its page marker and followed by its text and
\* then its tables as delimited blocks; every table extracted from any page
\* appears in the combined content after its own page's text.
C20_EveryTableFollowsItsPageText ==
    PdfEnhancedReturned =>
        /\ MarkersInPageOrder(out[1].raw_content.sections)
        /\ \A i \in 1..Len(out[1].pages) :
              \A k \in 1..Len(out[1].pages[i].tables) :
                  TableFollowsItsPage(out[1].raw_content.sections,
                                      out[1].pages[i], out[1].pages[i].tables[k])


----------------------------------------------------------------------------
(* Fallback ladders: the strategies a call runs, in the order it runs them *)

\* one strategy run: ladder lists the strategies of the unit from richest to
\* most degraded, result is "unavailable" (capability flag or handle absent),
\* "threw", "empty" (completed, found nothing) or "done"
Rung(unit, ladder, rung, result) ==
    [unit |-> unit, ladder |-> ladder, rung |-> rung, result |-> result]

PageRungs == << "ocr_engine.ocr", "pytesseract.image_to_string" >>

PytesseractResult(c, p) == IF c.advanced /\ p.tess # "raise" THEN "done" ELSE "threw"

\* pytesseract inside the try of _process_page_enhanced: its throw is caught
\* by the handler, which calls pytesseract once more
PytesseractInTry(c, p, unit) ==
    IF PytesseractResult(c, p) = "done"
    THEN << Rung(unit, PageRungs, "pytesseract.image_to_string", "done") >>
    ELSE << Rung(unit, PageRungs, "pytesseract.image_to_string", "threw"),
            Rung(unit, PageRungs, "pytesseract.image_to_string", "threw") >>

PageLadder_pytesseract_after_lines(c, p, num) ==
    LET unit == "page " \o ToString(num) IN
    IF ~c.models
    THEN << Rung(unit, PageRungs, "ocr_engine.ocr", "unavailable") >>
         \o PytesseractInTry(c, p, unit)
    ELSE IF p.ocr = "lines"
    THEN << Rung(unit, PageRungs, "ocr_engine.ocr", "done") >>
         \o PytesseractInTry(c, p, unit)
    ELSE IF p.ocr = "empty"
    THEN << Rung(unit, PageRungs, "ocr_engine.ocr", "empty") >>
         \o PytesseractInTry(c, p, unit)
    ELSE << Rung(unit, PageRungs, "ocr_engine.ocr", "threw"),
            Rung(unit, PageRungs, "pytesseract.image_to_string", PytesseractResult(c, p)) >>

\* the strategies _process_page_enhanced runs on one page
PageLadder(c, p, num) ==
    LET unit == "page " \o ToString(num) IN
    IF ~c.models
    THEN << Rung(unit, PageRungs, "ocr_engine.ocr", "unavailable") >>
         \o PytesseractInTry(c, p, unit)
    ELSE IF p.ocr = "lines"
    THEN << Rung(unit, PageRungs, "ocr_engine.ocr", "done") >>
    ELSE IF p.ocr = "empty"
    THEN << Rung(unit, PageRungs, "ocr_engine.ocr", "empty") >>
         \o PytesseractInTry(c, p, unit)
    ELSE << Rung(unit, PageRungs, "ocr_engine.ocr", "threw"),
            Rung(unit, PageRungs, "pytesseract.image_to_string", PytesseractResult(c, p)) >>

\* the pages _process_pdf_enhanced gets to: all of them, or those up to the
\* first page that throws
PagesReached(c, f) ==
    LET pd == PagesData(c, f)
        raising == { i \in 1..Len(pd) : pd[i].raised } IN
    IF raising = {} THEN Len(pd) ELSE SetMin(raising)

RECURSIVE PageLadders(_, _, _, _)
PageLadders(c, f, i, last) ==
    IF i > last THEN <<>>
    ELSE PageLadder(c, f.pages[i], i - 1) \o PageLadders(c, f, i + 1, last)

LoaderRung(f, ladder) ==
    Rung("file", ladder, "_process_with_gpt_researcher",
         IF _process_with_gpt_researcher(f).tag = "ok" THEN "done" ELSE "threw")

\* the strategies process_document runs
DocumentLadder(c, f) ==
    LET file_extension == Lower(Suffix(f))
        pdf == << "_process_pdf_enhanced", "_process_with_gpt_researcher" >>
        image == << "_process_image_enhanced", "_process_with_gpt_researcher" >> IN
    IF file_extension = ".pdf"
    THEN IF ~(c.advanced /\ f.raster_ok)
         THEN << Rung("file", pdf, "_process_pdf_enhanced", "threw"), LoaderRung(f, pdf) >>
         ELSE IF _process_pdf_enhanced(c, f) # _process_with_gpt_researcher(f)
         THEN PageLadders(c, f, 1, Len(f.pages))
              \o << Rung("file", pdf, "_process_pdf_enhanced", "done") >>
         ELSE PageLadders(c, f, 1, PagesReached(c, f))
              \o << Rung("file", pdf, "_process_pdf_enhanced", "threw"), LoaderRung(f, pdf) >>
    ELSE IF file_extension \in image_exts
    THEN IF ~(c.advanced => f.raster_ok)
         THEN << Rung("file", image, "_process_image_enhanced", "threw"),
                 LoaderRung(f, image) >>
         ELSE PageLadder(c, f.pages[1], 0)
              \o (IF _process_page_enhanced(c, f.pages[1], 0).raised
                  THEN << Rung("file", image, "_process_image_enhanced", "threw"),
                          LoaderRung(f, image) >>
                  ELSE << Rung("file", image, "_process_image_enhanced", "done") >>)
    ELSE << LoaderRung(f, << "_process_with_gpt_researcher" >>) >>

\* a format handler and the fallback text read behind it
HandlerLadder(f, handler, available, handler_ok) ==
    LET ladder == << handler, "_fallback_processing" >>
        fallback == Rung("file", ladder, "_fallback_processing",
                         IF f.readable THEN "done" ELSE "threw") IN
    IF ~available THEN << Rung("file", ladder, handler, "unavailable"), fallback >>
    ELSE IF handler_ok THEN << Rung("file", ladder, handler, "done") >>
    ELSE << Rung("file", ladder, handler, "threw"), fallback >>

\* the strategies process_email_file runs
EmailLadder(c, f) ==
    LET file_extension == Lower(Suffix(f)) IN
    IF ~f.exists THEN <<>>
    ELSE IF file_extension = ".msg"
    THEN HandlerLadder(f, "_process_msg_file", EMAIL_PROCESSING_AVAILABLE, f.readable)
    ELSE IF file_extension = ".eml"
    THEN HandlerLadder(f, "_process_eml_file", EMAIL_PROCESSING_AVAILABLE, f.parse_ok)
    ELSE IF file_extension = ".pst"
    THEN HandlerLadder(f, "_process_pst_file", c.pst, f.parse_ok)
    ELSE <<>>

\* the strategies process_archive_file runs
ArchiveLadder(c, f) ==
    IF ~f.exists THEN <<>>
    ELSE CASE ArchiveRoute(f) = "zip" ->
                HandlerLadder(f, "_process_zip_file", ZIP_PROCESSING_AVAILABLE, f.valid)
           [] ArchiveRoute(f) = "rar" ->
                HandlerLadder(f, "_process_rar_file", c.rar, f.valid)
           [] ArchiveRoute(f) = "tar" ->
                HandlerLadder(f, "_process_tar_file", ZIP_PROCESSING_AVAILABLE, f.valid)
           [] OTHER -> <<>>

\* the strategies the finished single-file call ran, in order
LadderTrace ==
    CASE call = "process_document" -> DocumentLadder(caps, inputs[1])
      [] call = "process_email_file" -> EmailLadder(caps, inputs[1])
      [] call = "process_archive_file" -> ArchiveLadder(caps, inputs[1])

SingleFileFinished == call \in FileOps /\ Finished

\* position of a strategy in the ladder of its unit (1 is the richest)
RankOf(e) == CHOOSE k \in 1..Len(e.ladder) : e.ladder[k] = e.rung

\* the run before position j that worked on the same unit, 0 if there is none
PreviousRun(trace, j) ==
    LET before == { i \in 1..(j - 1) : trace[i].unit = trace[j].unit } IN
    IF before = {} THEN 0 ELSE CHOOSE i \in before : \A k \in before : k <= i

\* every run is the top of its unit's ladder run first, or comes right after
\* a run of the same or the next higher strategy that ended in one of allowed
LadderRespected(trace, allowed) ==
    \A j \in 1..Len(trace) :
        LET i == PreviousRun(trace, j) IN
        IF i = 0 THEN RankOf(trace[j]) = 1
        ELSE /\ RankOf(trace[j]) \in { RankOf(trace[i]), RankOf(trace[i]) + 1 }
             /\ trace[i].result \in allowed

\* the record returned is the one the last strategy of the file produced
LadderAgreesWithOutcome ==
    SingleFileFinished =>
        LET runs == SelectSeq(LadderTrace, LAMBDA e : e.unit = "file") IN
        IF runs = <<>> THEN phase = "raised"
        ELSE LET last == runs[Len(runs)] IN
             /\ phase = "returned" =>
                   (out[1].enhanced_processing <=> (RankOf(last) = 1 /\ Len(last.ladder) = 2))
             /\ phase = "raised" <=>
                   (last.rung = "_process_with_gpt_researcher" /\ last.result = "threw")

\* C18: in every extraction processor the strategies are tried in a fixed
\* order from richest to most degraded, and a lower strategy runs only after
\* the one above it was unavailable or threw; a strategy that completed
\* without throwing is never followed by a lower one for the same unit.
C18_LowerRungOnlyAfterUnavailableOrThrew ==
    SingleFileFinished => LadderRespected(LadderTrace, {"unavailable", "threw"})

\* C18 as the code has it: a lower strategy runs only after the one above it
\* was unavailable, threw, or - for the OCR engine - completed without
\* finding any text line; a strategy that completed with a result is never
\* followed by a lower one for the same unit.
C18_LowerRungOnlyAfterUnavailableThrewOrEmpty ==
    SingleFileFinished => LadderRespected(LadderTrace, {"unavailable", "threw", "empty"})

\* a two-page PDF whose first page has OCR lines and whose second page makes
\* the OCR engine throw was served: the second page went down its ladder
C18_Witness ==
    /\ SingleFileFinished /\ call = "process_document" /\ caps.models
    /\ Len(LadderTrace) >= 4
    /\ \E j \in 2..Len(LadderTrace) :
          /\ LadderTrace[j].rung = "pytesseract.image_to_string"
          /\ LadderTrace[j - 1].result = "threw"
    /\ \E j \in 1..Len(LadderTrace) :
          /\ LadderTrace[j].rung = "ocr_engine.ocr" /\ LadderTrace[j].result = "done"


----------------------------------------------------------------------------
(* PST traversal *)

\* process_email_file returned the record _process_pst_file builds from the
\* traversal of the PST's root folder
PstExtracted ==
    /\ call = "process_email_file"
    /\ phase = "returned"
    /\ Lower(Suffix(inputs[1])) = ".pst"
    /\ caps.pst /\ inputs[1].parse_ok

\* the message items of a folder tree in traversal order: an item before the
\* items of the folder after it, a folder's items where the folder stands;
\* the items of a folder whose sub_items cannot be iterated are not reached
RECURSIVE Preorder(_)
Preorder(items) ==
    IF items = <<>> THEN <<>>
    ELSE LET item == Head(items) IN
         (IF item.kind = "message" THEN << item >>
          ELSE IF item.readable = "yes" THEN Preorder(item.sub_items)
          ELSE <<>>)
         \o Preorder(Tail(items))

\* the reached messages whose extraction does not throw
Extractable(root) ==
    SelectSeq(Preorder(root.sub_items),
              LAMBDA item : item.message_class = "IPM.Note" /\ item.extract = "ok")

\* C21: during PST folder traversal an error raised while extracting one item
\* is caught and only that item is skipped: every other message of the same
\* folder and of all its sub-folders is extracted, the messages are numbered
\* with a running index in traversal order, and metadata.message_count equals
\* the number of messages extracted.
C21_OnlyFailedPstItemsSkipped ==
    PstExtracted =>
        LET expected == Extractable(inputs[1].root) IN
        /\ out[1].metadata.processing_method = "pst_extraction"
        /\ out[1].metadata.message_count = Len(expected)
        /\ Len(out[1].raw_content.sections) = Len(expected)
        /\ \A i \in 1..Len(expected) :
              out[1].raw_content.sections[i] = MessageBlock(i, MsgData(expected[i]))


----------------------------------------------------------------------------
(* PST file handle *)

\* the pypff handle of _process_pst_file when the operation returns: opened
\* once pst.open succeeded, closed once pst.close() ran. pst.close() stands
\* at the end of the try-body, the except branch does not call it
PstHandleAtReturn(c, f) ==
    IF ~c.pst THEN [opened |-> FALSE, closed |-> FALSE]
    ELSE IF f.parse_ok THEN [opened |-> TRUE, closed |-> TRUE]
    ELSE IF f.root = RootRaises THEN [opened |-> TRUE, closed |-> FALSE]
    ELSE [opened |-> FALSE, closed |-> FALSE]

\* process_email_file was served by _process_pst_file
PstServed ==
    /\ call = "process_email_file"
    /\ phase = "returned"
    /\ Lower(Suffix(inputs[1])) = ".pst"

\* C30: every PST file handle opened by _process_pst_file is closed before
\* the operation returns, on the success path and on every failure path (an
\* exception after the open followed by the fallback read).
C30_PstHandleClosedOnEveryPath ==
    PstServed =>
        (PstHandleAtReturn(caps, inputs[1]).opened => PstHandleAtReturn(caps, inputs[1]).closed)


----------------------------------------------------------------------------
(* Semantic chunking that throws *)

\* the semantic path was entered and threw: the model is loaded, the text has
\* the two sentences that make the path encode, and the encoding or the
\* grouping throws
SemanticPathThrew ==
    /\ call \in AllChunkOps /\ phase \in {"returned", "raised"}
    /\ caps.model
    /\ call = "LegalDocumentEnhancement.chunk_document" => caps.use_semantic_chunking
    /\ ~inputs[1].encode_ok
    /\ Len(SentencesOf(inputs[1])) >= 2

\* C22: if computing the sentence embeddings or grouping the sentences throws
\* during semantic chunking, the chunk operation does not raise and returns
\* the fixed-window chunks of the whole document; no partially built semantic
\* chunk is part of the output.
C22_SemanticFailureFallsBackToFixedWindow ==
    SemanticPathThrew =>
        /\ phase = "returned"
        /\ out = split_documents(inputs[1].document, caps.config.max_chunk_size,
                                 caps.config.chunk_overlap)
        /\ \A j \in 1..Len(out) :
              /\ out[j].metadata = inputs[1].document.metadata
              /\ Len(out[j].page_content) <= caps.config.max_chunk_size

\* the semantic path threw on a text longer than one window and the fallback
\* returned several windows
C22_Witness ==
    /\ SemanticPathThrew
    /\ phase = "returned"
    /\ Len(inputs[1].document.page_content) > caps.config.max_chunk_size
    /\ Len(out) >= 2


----------------------------------------------------------------------------
(* Chunk numbering and non-empty output *)

\* C27: in the list returned by semantic chunking of one document the chunks'
\* chunk_index values are exactly 0, 1, ..., n-1 in list order and every
\* chunk's total_chunks equals n, the number of chunks returned after the
\* minimum-size filter.
C27_ChunkIndexDenseAndTotalIsReturned ==
    GroupedChunksReturned =>
        \A j \in 1..Len(out) :
            /\ out[j].metadata.chunk_index = j - 1
            /\ out[j].metadata.total_chunks = Len(out)

\* a document with at least one sentence was chunked
SentenceTextChunked ==
    /\ call \in AllChunkOps /\ phase = "returned"
    /\ Len(SentencesOf(inputs[1])) >= 1

\* C28: chunking a document whose text contains at least one sentence returns
\* at least one chunk, for every setting of min_chunk_size, max_chunk_size and
\* similarity_threshold.
C28_SentenceTextYieldsAChunk ==
    SentenceTextChunked => Len(out) >= 1


----------------------------------------------------------------------------
(* Construction: the model initialization of the processor and the chunker *)

\* what the process offers when LegalDocumentProcessor is constructed:
\* advanced is ADVANCED_PROCESSING_AVAILABLE, cuda is
\* torch.cuda.is_available(), and the three fields say what each initializer
\* does when it is called
ProcessorEnvs ==
    [kind : {"processor"}, advanced : {TRUE}, cuda : BOOLEAN, use_gpu : BOOLEAN,
     layout_processor : {"ok", "raise"}, layout_model : {"ok", "raise"},
     ocr_engine : {"ok", "raise"}]
    \cup [kind : {"processor"}, advanced : {FALSE}, cuda : {FALSE}, use_gpu : BOOLEAN,
          layout_processor : {"raise"}, layout_model : {"raise"}, ocr_engine : {"raise"}]

\* SEMANTIC_CHUNKING_AVAILABLE and what SentenceTransformer(model_name) does
ChunkerEnvs ==
    [kind : {"chunker"}, semantic : {TRUE}, model : {"ok", "raise"}]
    \cup [kind : {"chunker"}, semantic : {FALSE}, model : {"raise"}]

\* the handles of a LegalDocumentProcessor: TRUE is a live object, FALSE None
Handles(layout_processor, layout_model, ocr_engine) ==
    [layout_processor |-> layout_processor, layout_model |-> layout_model,
     ocr_engine |-> ocr_engine]

NoHandles == Handles(FALSE, FALSE, FALSE)

\* self.device in __init__
Device(env) == IF env.advanced /\ env.cuda /\ env.use_gpu THEN "cuda" ELSE "cpu"

_initialize_models_propagating(env) ==
    IF ~env.advanced THEN [raised |-> FALSE, handles |-> NoHandles]
    ELSE IF env.layout_processor = "ok" /\ env.layout_model = "ok" /\ env.ocr_engine = "ok"
    THEN [raised |-> FALSE, handles |-> Handles(TRUE, TRUE, TRUE)]
    ELSE [raised |-> TRUE,
          handles |-> Handles(env.layout_processor = "ok",
                              env.layout_processor = "ok" /\ env.layout_model = "ok",
                              FALSE)]

\* _initialize_models: the three initializers run in one try, on the GPU and
\* on the CPU branch in the same order; the except branch sets all three
\* handles to None
_initialize_models(env) ==
    IF ~env.advanced THEN [raised |-> FALSE, handles |-> NoHandles]
    ELSE IF env.layout_processor = "ok" /\ env.layout_model = "ok" /\ env.ocr_engine = "ok"
    THEN [raised |-> FALSE, handles |-> Handles(TRUE, TRUE, TRUE)]
    ELSE [raised |-> FALSE, handles |-> NoHandles]

\* LegalChunker._initialize_model: self.model is set iff the import and the
\* load succeeded
_initialize_model(env) ==
    [raised |-> FALSE, model |-> env.semantic /\ env.model = "ok"]

\* the capability snapshot the processing operators read from a processor
SnapshotOf(env, handles) ==
    [rar |-> FALSE, pst |-> FALSE, advanced |-> env.advanced, models |-> handles.ocr_engine]

Unconstructed == [kind |-> "none"]

InitProbe ==
    /\ caps = Unconstructed
    /\ call = "none"
    /\ inputs = <<>>
    /\ results = <<>>
    /\ completed = <<>>
    /\ phase = "idle"
    /\ out = <<>>
    /\ must_cancel = NoCancel

\* LegalDocumentProcessor.__init__: completed logs the initializations run
ConstructProcessor ==
    /\ phase = "idle"
    /\ \E env \in ProcessorEnvs :
        LET r == _initialize_models(env) IN
        /\ call' = "LegalDocumentProcessor.__init__"
        /\ inputs' = << env >>
        /\ caps' = [kind |-> "processor", device |-> Device(env), handles |-> r.handles]
        /\ completed' = Append(completed, "_initialize_models")
        /\ phase' = IF r.raised THEN "raised" ELSE "constructed"
        /\ UNCHANGED <<results, out, must_cancel>>

\* LegalChunker.__init__ with the default arguments
ConstructChunker ==
    /\ phase = "idle"
    /\ \E env \in ChunkerEnvs :
        LET r == _initialize_model(env) IN
        /\ call' = "LegalChunker.__init__"
        /\ inputs' = << env >>
        /\ caps' = [kind |-> "chunker", model |-> r.model, config |-> DefaultConfig,
                    use_semantic_chunking |-> TRUE]
        /\ completed' = Append(completed, "_initialize_model")
        /\ phase' = IF r.raised THEN "raised" ELSE "constructed"
        /\ UNCHANGED <<results, out, must_cancel>>

\* process_document on the constructed processor: reads self.ocr_engine,
\* self.layout_processor and self.layout_model
ConstructedProcessDocument ==
    /\ phase = "constructed" /\ caps.kind = "processor"
    /\ \E f \in BatchDocFiles :
        LET outcome == process_document(SnapshotOf(inputs[1], caps.handles), f) IN
        /\ results' = << f >>
        /\ out' = IF outcome.tag = "ok" THEN << outcome.rec >>
                  ELSE << [exception |-> outcome.etype, message |-> outcome.msg] >>
        /\ UNCHANGED <<caps, call, inputs, completed, phase, must_cancel>>

\* chunk_document on the constructed chunker: reads self.model
ConstructedChunkDocument ==
    /\ phase = "constructed" /\ caps.kind = "chunker"
    /\ \E req \in [document : [page_content : TextsOf(ShortSegments, 1, 2),
                                 metadata : { ParentMetadata }],
                     encode_ok : BOOLEAN] :
        /\ req.encode_ok \/ caps.model
        /\ results' = << req >>
        /\ out' = LegalChunker_chunk_document(caps, req.document, req.encode_ok).docs
        /\ UNCHANGED <<caps, call, inputs, completed, phase, must_cancel>>

NextProbe ==
    \/ ConstructProcessor \/ ConstructChunker
    \/ ConstructedProcessDocument \/ ConstructedChunkDocument

SpecProbe == InitProbe /\ [][NextProbe]_vars

\* a constructor has finished, processing calls may have followed
Constructed == phase \in {"constructed", "raised"}

\* the handle recorded for a capability, TRUE if it is available
Available(capability) ==
    IF caps.kind = "chunker" THEN caps.model ELSE caps.handles[capability]

\* the capabilities of the constructed object whose initialization failed:
\* the import is missing or the initializer throws when it is called
FailedCapabilities ==
    IF caps.kind = "chunker"
    THEN (IF inputs[1].semantic /\ inputs[1].model = "ok" THEN {} ELSE {"model"})
    ELSE { k \in {"layout_processor", "layout_model", "ocr_engine"} :
             ~inputs[1].advanced \/ inputs[1][k] = "raise" }

\* C23: the model initialization run once by the LegalDocumentProcessor and
\* LegalChunker constructors never raises: any initialization failure is
\* caught and the capability that failed is recorded as unavailable, and the
\* processing calls that follow read the recorded handles without
\* initializing them again.
C23_ProbeNeverRaisesAndHandlesKept ==
    Constructed =>
        /\ phase = "constructed"
        /\ \A k \in FailedCapabilities : ~Available(k)
        /\ Len(completed) = 1
        /\ caps.kind = "processor" => caps.handles = _initialize_models(inputs[1]).handles
        /\ caps.kind = "chunker" => caps.model = _initialize_model(inputs[1]).model

\* a processor whose OCR engine failed to initialize was constructed and has
\* served a process_document call
C23_Witness ==
    /\ Constructed /\ caps.kind = "processor"
    /\ inputs[1].advanced /\ inputs[1].ocr_engine = "raise"
    /\ results # <<>> /\ out # <<>>

\* C29: after LegalDocumentProcessor initialization each of the OCR engine,
\* the layout processor and the layout model is available exactly when its
\* own initialization succeeded: a failure initializing one of them does not
\* make the others unavailable.
C29_HandleAvailableIffOwnInitSucceeded ==
    (Constructed /\ caps.kind = "processor" /\ inputs[1].advanced) =>
        \A k \in {"layout_processor", "layout_model", "ocr_engine"} :
            Available(k) <=> inputs[1][k] = "ok"


----------------------------------------------------------------------------
(* Cancellation of batch items *)

\* the items of the batch that were cancelled while in flight
CancelledItems ==
    { i \in 1..Len(results) :
        results[i].tag = "exc" /\ results[i].etype = "CancelledError" }

\* an error record that names cancellation as the kind of the error
IsCancelledRecord(v) ==
    /\ IsRecord(v)
    /\ v.metadata.processing_method = "error"
    /\ "error_kind" \in DOMAIN v.metadata
    /\ v.metadata.error_kind = "cancelled"

\* C24: if an item of a batch is cancelled while in flight, the batch result
\* keeps its ordering contract (one slot per input, slot i for input i) and
\* the cancelled item's slot holds an error record whose error kind is
\* "cancelled".
C24_CancelledSlotIsCancelledRecord ==
    (call \in BatchOps /\ Finished /\ CancelledItems # {}) =>
        /\ phase = "returned"
        /\ Len(out) = Len(inputs)
        /\ \A i \in 1..Len(inputs) :
              IF i \in CancelledItems THEN IsCancelledRecord(out[i])
              ELSE out[i] = BatchSlot(call, inputs[i], TaskValue(results[i]))


----------------------------------------------------------------------------
(* The OCR engine under process_documents_batch *)

\* the calls of self.ocr_engine.ocr one process_document makes
OcrCalls(c, f) ==
    Cardinality({ j \in 1..Len(DocumentLadder(c, f)) :
                    /\ DocumentLadder(c, f)[j].rung = "ocr_engine.ocr"
                    /\ DocumentLadder(c, f)[j].result # "unavailable" })

\* a task of the batch that has started and not finished: calls counts the
\* OCR calls it has returned from, in_ocr says it is inside one
Running(calls, in_ocr) == [tag |-> "running", calls |-> calls, in_ocr |-> in_ocr]

LoopIdle_in_threads(res) == TRUE

\* the event loop runs one task at a time and a running task gives the loop
\* back only when it awaits a pending future; process_document awaits nothing
\* but its own coroutines and calls the OCR engine synchronously, so no other
\* task starts while one is running
LoopIdle(res) == \A j \in 1..Len(res) : res[j].tag # "running"

StartTask ==
    \E i \in 1..Len(inputs) :
        /\ phase = "gather"
        /\ results[i] = Pending
        /\ LoopIdle(results)
        /\ results' = [results EXCEPT ![i] = Running(0, FALSE)]
        /\ UNCHANGED <<caps, call, inputs, completed, phase, out, must_cancel>>

\* the task calls self.ocr_engine.ocr(np.array(image))
EnterOcr ==
    \E i \in 1..Len(inputs) :
        /\ phase = "gather"
        /\ results[i].tag = "running"
        /\ ~results[i].in_ocr
        /\ results[i].calls < OcrCalls(caps, inputs[i])
        /\ results' = [results EXCEPT ![i] = Running(results[i].calls, TRUE)]
        /\ UNCHANGED <<caps, call, inputs, completed, phase, out, must_cancel>>

\* the OCR call returns or throws
LeaveOcr ==
    \E i \in 1..Len(inputs) :
        /\ phase = "gather"
        /\ results[i].tag = "running"
        /\ results[i].in_ocr
        /\ results' = [results EXCEPT ![i] = Running(results[i].calls + 1, FALSE)]
        /\ UNCHANGED <<caps, call, inputs, completed, phase, out, must_cancel>>

\* the task ends with the outcome of process_document
FinishTask ==
    \E i \in 1..Len(inputs) :
        /\ phase = "gather"
        /\ results[i].tag = "running"
        /\ ~results[i].in_ocr
        /\ results[i].calls = OcrCalls(caps, inputs[i])
        /\ results' = [results EXCEPT ![i] = ItemOp(call, caps, inputs[i])]
        /\ completed' = Append(completed, i)
        /\ UNCHANGED <<caps, call, inputs, phase, out, must_cancel>>

NextOcr ==
    \/ ProcessDocumentsBatch
    \/ StartTask
    \/ EnterOcr
    \/ LeaveOcr
    \/ FinishTask
    \/ DocumentsBatchReturn

\* process_documents_batch with the steps of its tasks around the OCR calls
SpecOcr == Init /\ [][NextOcr]_vars

\* the batch items that are inside a call of the OCR engine
InsideOcr ==
    { i \in 1..Len(results) : results[i].tag = "running" /\ results[i].in_ocr }

\* C25: during process_documents_batch the calls into the shared OCR engine
\* handle are serialized: in no reachable state are two batch items inside an
\* OCR engine call at the same time.
C25_OcrCallsSerialized ==
    call = "process_documents_batch" => Cardinality(InsideOcr) <= 1

\* one item is inside the OCR engine while another item that will call the
\* engine too has not run yet
C25_Witness ==
    /\ call = "process_documents_batch" /\ phase = "gather"
    /\ \E i \in InsideOcr :
          \E j \in 1..Len(results) :
              /\ j # i
              /\ results[j] = Pending
              /\ OcrCalls(caps, inputs[j]) > 0


----------------------------------------------------------------------------
(* integration.py: the single-document and the batch path of the wrapper *)

\* LegalDocumentEnhancement._fallback_processing: the generic record
LegalDocumentEnhancement_fallback_processing(f) ==
    [raw_content |-> Content("Processed " \o PathStr(f) \o " with GPT Researcher", <<>>),
     url |-> PathStr(f),
     enhanced_processing |-> FALSE,
     metadata |-> [file_type |-> Lower(Suffix(f)),
                   processing_method |-> "gpt_researcher"]]

\* LegalDocumentEnhancement.process_document: what the processor throws is
\* caught and answered with the generic record
LegalDocumentEnhancement_process_document(c, f) ==
    IF c.use_enhanced_processing
    THEN LET r == process_document(c, f) IN
         IF r.tag = "ok" THEN r
         ELSE Return(LegalDocumentEnhancement_fallback_processing(f))
    ELSE Return(LegalDocumentEnhancement_fallback_processing(f))

\* the wrapper over a processor with the capabilities of Init, enhanced
\* processing switched on or off
WrapperSnapshots ==
    [rar : {FALSE}, pst : {FALSE}, advanced : {TRUE}, models : BOOLEAN,
     use_enhanced_processing : BOOLEAN]
    \cup [rar : {FALSE}, pst : {FALSE}, advanced : {FALSE}, models : {FALSE},
          use_enhanced_processing : BOOLEAN]

InitWrapper ==
    /\ caps \in WrapperSnapshots
    /\ call = "none"
    /\ inputs = <<>>
    /\ results = <<>>
    /\ completed = <<>>
    /\ phase = "idle"
    /\ out = <<>>
    /\ must_cancel = NoCancel

EnhancementProcessDocument ==
    /\ phase = "idle"
    /\ \E f \in DocFiles(1) :
        SingleCall("LegalDocumentEnhancement.process_document", f,
                   LegalDocumentEnhancement_process_document(caps, f))

\* LegalDocumentEnhancement.process_documents_batch: with enhanced processing
\* on, the call is the processor's process_documents_batch (one task per path,
\* then `await asyncio.gather(...)`); otherwise it builds the generic record
\* of every path and returns without giving the loop back
EnhancementProcessDocumentsBatch ==
    /\ phase = "idle"
    /\ \E paths \in BatchLists(BatchDocFiles) :
        IF caps.use_enhanced_processing
        THEN BatchCall("LegalDocumentEnhancement.process_documents_batch", paths)
        ELSE /\ call' = "LegalDocumentEnhancement.process_documents_batch"
             /\ inputs' = paths
             /\ phase' = "returned"
             /\ out' = [i \in 1..Len(paths) |->
                           LegalDocumentEnhancement_fallback_processing(paths[i])]
             /\ UNCHANGED <<caps, results, completed, must_cancel>>

\* the processor's batch returns the gathered list, and the wrapper returns it
EnhancementBatchReturn ==
    BatchReturn("LegalDocumentEnhancement.process_documents_batch")

NextWrapper ==
    \/ EnhancementProcessDocument
    \/ EnhancementProcessDocumentsBatch
    \/ RunTask
    \/ CancelTask
    \/ CancelBatch
    \/ BatchCancelled
    \/ EnhancementBatchReturn

\* the wrapper's single-document and batch calls, the tasks of the batch or
\* the batch cancelled at any time
SpecWrapper == InitWrapper /\ [][NextWrapper]_vars

\* C26: the batch path wraps the single-item path: slot i of
\* LegalDocumentEnhancement.process_documents_batch equals what
\* LegalDocumentEnhancement.process_document returns for input i alone,
\* including the generic record where enhanced processing fails.
C26_BatchSlotEqualsSingleResult ==
    (call = "LegalDocumentEnhancement.process_documents_batch" /\ Finished) =>
        /\ phase = "returned"
        /\ Len(out) = Len(inputs)
        /\ \A i \in 1..Len(inputs) :
              out[i] = TaskValue(LegalDocumentEnhancement_process_document(caps, inputs[i]))

====
